---- MODULE Spec2Model ----
(***************************************************************************)
(* A model of the knowledge-graph post-processing pipeline:                *)
(*   - BatchProcessor (batch_processing.py): the thread-pool fan-out of    *)
(*     process_directory / process_file_list, as a state machine;          *)
(*   - extract_json_from_text (llm_old.py): a pure function over texts,    *)
(*     modelled character by character;                                    *)
(*   - GraphFilter.get_subgraph_around_entity (export_utils.py): a pure    *)
(*     function over triple lists;                                         *)
(*   - GraphFilter's record filters, export_multiple_formats               *)
(*     (export_utils.py) and PerformanceAnalyzer.analyze_batch_results     *)
(*     (batch_processing.py);                                              *)
(*   - the turtle, graphml and gexf exporters (export_utils.py);           *)
(*   - apply_filtering (cli.py);                                           *)
(*   - Neo4jIntegration, export_triples_to_neo4j and                       *)
(*     query_neo4j_knowledge_graph (neo4j_integration.py).                 *)
(* Spec is the batch run, SpecLive the batch run under fair scheduling,    *)
(* SpecMFE the export loop, SpecBFS the neighbourhood traversal step by    *)
(* step and SpecNEO the calls on a Neo4j integration; SpecSER, SpecGFE,    *)
(* SpecFLT, SpecAF, SpecPA, SpecEXP and SpecPSF apply the functions to     *)
(* inputs drawn from bounded sets.                                         *)
(***************************************************************************)
EXTENDS Naturals, Sequences, FiniteSets

VARIABLES
    \* ---- batch run (BatchProcessor) ----
    api,          \* "directory" (process_directory) or "file_list" (process_file_list)
    files,        \* input_files / file_list: the submitted paths, in submission order
    max_workers,  \* the worker limit handed to ThreadPoolExecutor
    outcome,      \* per submission: what this document's pipeline run does
    task,         \* per submission: "unsubmitted", "queued", "running", "finished"
    future,       \* per submission: the future's result once finished
    collected,    \* the submissions as_completed has yielded so far
    firstCollected, \* the submission as_completed yielded first (0 before)
    results,      \* the results dict: path -> record
    pc,           \* the calling thread: "run" inside the call, "unwinding" while an
                  \* exception leaves the with block, "done" once the call
                  \* returned, "raised" once it raised
    summary,      \* the returned summary (NoSummary until the call returns)
    \* ---- extract_json_from_text ----
    serParts,     \* the object texts the input was built from
    serForm,      \* how the input was built from them
    serCut,       \* the cut position (form "cut"), else 0
    text,         \* the input text, a sequence of characters
    serOut,       \* the outcome of the call (NotRun before)
    serFrames,    \* the frames on the call stack when the function is called
    \* ---- GraphFilter ----
    triples,      \* the input triple list
    entity,       \* the center entity
    max_hops,     \* the hop limit
    gfOut,        \* the returned list (NotRun before)
    gfOp,         \* which GraphFilter operation was called ("none" before)
    gfArg,        \* the arguments it was called with, besides the triples
    \* ---- export_multiple_formats ----
    formats,      \* the requested format names, in order
    exportFails,  \* the formats whose exporter raises (I/O or data error)
    exportPos,    \* the number of loop iterations done
    exportResults,\* the results dict: format -> entry
    exportPc,     \* "loop", "returned", "raised" ("idle" when not called)
    \* ---- PerformanceAnalyzer ----
    batchResults, \* batch_results["results"]: key -> record
    analysis,     \* what analyze_batch_results returned (NotRun before)
    \* ---- ExportManager: turtle, graphml, gexf ----
    expTriples,   \* the triples handed to the exporter
    expOut,       \* what it wrote and returned (NotRun before)
    \* ---- Neo4jIntegration and export_triples_to_neo4j ----
    neoFails,     \* the database operations that raise when attempted
    neoKind,      \* what they raise: an Exception or a KeyboardInterrupt
    neoClosedUse, \* what the neo4j package does when a closed driver is used:
                  \* "raises" (an Exception) or "works" (as on an open driver)
    clear_first,  \* import_knowledge_graph's clear_first argument
    stats,        \* its stats argument: "None", "empty" ({}) or "given"
    driver,       \* self.driver: "none", "open" or "closed"
    neoOp,        \* the last call made ("none" before the first)
    neoDone,      \* the import steps the last import completed, in order
    neoResult,    \* what the last call returned ("raised" if it raised)
    \* ---- the traversal of get_subgraph_around_entity, step by step ----
    bfsQueue,     \* queue: pairs (entity, distance)
    bfsVisited,   \* visited, which is also entities_in_subgraph
    \* ---- _process_single_file with its exports ----
    psfPath,      \* input_file
    psfOutcome,   \* what the document's pipeline run meets (see Outcomes)
    psfRecord     \* what the call returned (NotRun before)

batchVars == <<api, files, max_workers, outcome, task, future, collected, firstCollected,
               results, pc, summary>>
serVars == <<serParts, serForm, serCut, text, serOut, serFrames>>
gfVars == <<triples, entity, max_hops, gfOut>>
fltVars == <<gfOp, gfArg>>
mfeVars == <<formats, exportFails, exportPos, exportResults, exportPc>>
paVars == <<batchResults, analysis>>
expVars == <<expTriples, expOut>>
neoVars == <<neoFails, neoKind, neoClosedUse, clear_first, stats, driver, neoOp, neoDone,
             neoResult>>
bfsVars == <<bfsQueue, bfsVisited>>
psfVars == <<psfPath, psfOutcome, psfRecord>>
vars == <<batchVars, serVars, gfVars, fltVars, mfeVars, paVars, expVars, neoVars,
          bfsVars, psfVars>>

NotRun == [kind |-> "not_run", val |-> <<>>]

(***************************************************************************)
(* Generic helpers.                                                        *)
(***************************************************************************)
Range(s) == {s[i] : i \in 1..Len(s)}

SeqsUpTo(S, n) == UNION {[1..k -> S] : k \in 0..n}

(***************************************************************************)
(* BatchProcessor.                                                         *)
(***************************************************************************)
MaxFiles == 2
MaxWorkers == 2

\* The paths a batch may name. "a.txt" and "a.md" share the stem "a".
Paths == {"a.txt", "a.md", "b.txt"}

\* What one document's pipeline run meets: the file cannot be opened, the
\* text is blank, process_text_in_chunks raises an Exception ("raises"), it
\* raises an Exception whose str() raises an Exception in turn, one that
\* str() accepts ("raises_unprintable") or one whose str() raises again
\* ("raises_unprintable_twice"), it raises an exception outside the
\* Exception class, such as SystemExit, KeyboardInterrupt or GeneratorExit
\* ("raises_base"), it yields no triple, it yields triples whose subject,
\* predicate and object are hashable ("ok"), or it yields triples of which
\* one is not, a list or a dict ("unhashable").
Outcomes == {"ok", "unhashable", "unreadable", "empty", "raises",
             "raises_unprintable", "raises_unprintable_twice", "raises_base",
             "no_triples"}

\* The outcomes that pass "if not triples": the exports run.
YieldsTriples == {"ok", "unhashable"}

NoRecord == [status |-> "none", error |-> "", input_file |-> "",
             triples_extracted |-> 0, timed |-> FALSE]

\* An error record; timed says whether it carries "processing_time".
ErrorRecord(msg, timed) ==
    [status |-> "error", error |-> msg, input_file |-> "",
     triples_extracted |-> 0, timed |-> timed]

SuccessRecord(path, n) ==
    [status |-> "success", error |-> "", input_file |-> path,
     triples_extracted |-> n, timed |-> TRUE]

\* The number of triples a document that yields triples is taken to yield.
TriplesOf(path) == IF path = "b.txt" THEN 2 ELSE 1

\* Path(input_file).stem: the file name without its suffix.
Stem(path) ==
    CASE path = "a.txt" -> "a"
      [] path = "a.md"  -> "a"
      [] OTHER          -> "b"

\* The formats _process_single_file asks export_multiple_formats for.
BatchFormats == <<"json", "csv", "html">>

\* The files a document's run writes once it has triples: output_base (the
\* output directory joined with the stem) with the suffix of each format
\* that has an exporter.
OutputFiles(path) ==
    {<<Stem(path), BatchFormats[k]>> :
        k \in {n \in 1..Len(BatchFormats) : BatchFormats[n] \in {"json", "csv", "graphml", "gexf", "turtle"}}}

\* What a finished future holds: the returned record, or an exception: an
\* Exception that str() accepts ("Exception"), an Exception whose str()
\* raises ("UnprintableException"), or one of a class outside Exception
\* ("BaseException").
Returned(rec) == [raised |-> FALSE, exc |-> "", rec |-> rec]
Raised(exc) == [raised |-> TRUE, exc |-> exc, rec |-> NoRecord]
Pending == [raised |-> FALSE, exc |-> "", rec |-> NoRecord]

\* _process_single_file: an Exception raised inside the try block is turned
\* into an error record by the handler; when str() of that exception raises,
\* the handler itself raises what str() raised; an exception outside the
\* Exception class is not handled. In the last two cases the call raises,
\* and so does the future. The success record is built inside the try
\* block: its statistics put the subjects, objects and predicates into
\* sets, which raises a TypeError when one of them is unhashable.
ProcessSingleFile(path, out) ==
    CASE out = "unreadable" -> Returned(ErrorRecord("cannot open", TRUE))
      [] out = "empty"      -> Returned(ErrorRecord("Empty file", FALSE))
      [] out = "raises"     -> Returned(ErrorRecord("pipeline error", TRUE))
      [] out = "raises_unprintable" -> Raised("Exception")
      [] out = "raises_unprintable_twice" -> Raised("UnprintableException")
      [] out = "raises_base" -> Raised("BaseException")
      [] out = "unhashable" -> Returned(ErrorRecord("unhashable type", TRUE))
      [] out = "no_triples" -> Returned(ErrorRecord("No triples extracted", FALSE))
      [] OTHER              -> Returned(SuccessRecord(path, TriplesOf(path)))

\* future.result() raises an exception that leaves the loop: one that
\* "except Exception" lets through, or an Exception whose str() raises
\* inside the handler.
LeavesLoop(fut) == fut.raised /\ fut.exc \in {"BaseException", "UnprintableException"}

\* The body of the as_completed loop: the record stored for a future that
\* returned, or that raised an Exception.
CollectedRecord(fut) ==
    IF fut.raised THEN ErrorRecord("future raised", FALSE) ELSE fut.rec

Submissions == 1..Len(files)
Running == {i \in Submissions : task[i] = "running"}
Queued == {i \in Submissions : task[i] = "queued"}
Terminal == {i \in Submissions : task[i] = "finished"}
AllSubmitted == \A i \in Submissions : task[i] # "unsubmitted"

\* A variant of the pool that admits one task too many.
WorkerFreeOffByOne == Cardinality(Running) <= max_workers

\* ThreadPoolExecutor(max_workers): a worker takes the next queued task only
\* while fewer than max_workers tasks are running.
WorkerFree == Cardinality(Running) < max_workers

EmptyResults == [p \in Paths |-> NoRecord]
Keys(res) == {p \in Paths : res[p] # NoRecord}

\* successful: the records whose status is "success".
CountSuccess(res) ==
    Cardinality({p \in Keys(res) : res[p].status = "success"})

NoSummary == [status |-> "none", total_files |-> 0, successful |-> 0,
              failed |-> 0, results |-> EmptyResults, written |-> FALSE]

\* The failed count: process_directory counts the records that are not
\* successes, process_file_list subtracts from the length of the list.
FailedCount(which, res, n) ==
    IF which = "directory" THEN Cardinality(Keys(res)) - CountSuccess(res)
    ELSE n - CountSuccess(res)

\* The summary dict; process_directory also writes batch_summary.json.
Summary(which, res, n) ==
    [status |-> "completed", total_files |-> n,
     successful |-> CountSuccess(res), failed |-> FailedCount(which, res, n),
     results |-> res, written |-> (which = "directory")]

BatchInit ==
    /\ api \in {"directory", "file_list"}
    /\ files \in SeqsUpTo(Paths, MaxFiles)
    /\ max_workers \in 1..MaxWorkers
    /\ outcome \in [1..Len(files) -> Outcomes]
    /\ task = [i \in 1..Len(files) |-> "unsubmitted"]
    /\ future = [i \in 1..Len(files) |-> Pending]
    /\ collected = {}
    /\ firstCollected = 0
    /\ results = EmptyResults
    /\ pc = "run"
    /\ summary = NoSummary

\* process_directory returns early when no file matched.
NoFiles ==
    /\ pc = "run" /\ api = "directory" /\ Len(files) = 0
    /\ pc' = "done"
    /\ summary' = [NoSummary EXCEPT !.status = "no_files"]
    /\ UNCHANGED <<api, files, max_workers, outcome, task, future, collected, firstCollected, results>>

\* executor.submit, in the order of the list.
Submit(i) ==
    /\ pc = "run" /\ task[i] = "unsubmitted"
    /\ \A j \in 1..(i-1) : task[j] # "unsubmitted"
    /\ task' = [task EXCEPT ![i] = "queued"]
    /\ UNCHANGED <<api, files, max_workers, outcome, future, collected, firstCollected, results, pc, summary>>

\* A pool worker takes the oldest queued task.
WorkerStart(i) ==
    /\ task[i] = "queued" /\ \A j \in Queued : i <= j
    /\ WorkerFree
    /\ task' = [task EXCEPT ![i] = "running"]
    /\ UNCHANGED <<api, files, max_workers, outcome, future, collected, firstCollected, results, pc, summary>>

\* The task's _process_single_file call returns or raises; the future takes
\* the record or the exception.
WorkerFinish(i) ==
    /\ task[i] = "running"
    /\ task' = [task EXCEPT ![i] = "finished"]
    /\ future' = [future EXCEPT ![i] = ProcessSingleFile(files[i], outcome[i])]
    /\ UNCHANGED <<api, files, max_workers, outcome, collected, firstCollected, results, pc, summary>>

\* One turn of the as_completed loop, entered once every task is submitted:
\* the record is stored, unless future.result() raises an exception the
\* handler does not turn into a record (see LeavesLoop), which leaves the
\* loop and the with block.
Collect(i) ==
    /\ pc = "run" /\ AllSubmitted
    /\ task[i] = "finished" /\ i \notin collected
    /\ IF LeavesLoop(future[i])
       THEN results' = results /\ pc' = "unwinding"
       ELSE /\ results' = [results EXCEPT ![files[i]] = CollectedRecord(future[i])]
            /\ pc' = pc
    /\ collected' = collected \cup {i}
    /\ firstCollected' = IF collected = {} THEN i ELSE firstCollected
    /\ UNCHANGED <<api, files, max_workers, outcome, task, future, summary>>

\* The exception leaves the with block: the executor's shutdown waits for
\* every submitted task to finish, then the call raises without a summary.
Reraise ==
    /\ pc = "unwinding" /\ Terminal = Submissions
    /\ pc' = "raised"
    /\ UNCHANGED <<api, files, max_workers, outcome, task, future, collected,
                   firstCollected, results, summary>>

\* The batches of the fair run: a document's pipeline run returns triples,
\* hashable or not, or raises, an Exception or an exception outside that
\* class.
LiveInit ==
    /\ BatchInit
    /\ outcome \in [1..Len(files) -> {"ok", "unhashable", "raises", "raises_base"}]

\* A variant that builds the summary as soon as every task is submitted.
SummarizeEarly ==
    /\ pc = "run" /\ AllSubmitted
    /\ ~(api = "directory" /\ Len(files) = 0)
    /\ summary' = Summary(api, results, Len(files))
    /\ pc' = "done"
    /\ UNCHANGED <<api, files, max_workers, outcome, task, future, collected, firstCollected, results>>

\* The loop is exhausted and the executor has shut down: build the summary.
Summarize ==
    /\ pc = "run" /\ AllSubmitted /\ collected = Submissions
    /\ ~(api = "directory" /\ Len(files) = 0)
    /\ summary' = Summary(api, results, Len(files))
    /\ pc' = "done"
    /\ UNCHANGED <<api, files, max_workers, outcome, task, future, collected, firstCollected, results>>

BatchNext ==
    \/ NoFiles
    \/ \E i \in Submissions : Submit(i)
    \/ \E i \in Submissions : WorkerStart(i)
    \/ \E i \in Submissions : WorkerFinish(i)
    \/ \E i \in Submissions : Collect(i)
    \/ Reraise
    \/ Summarize


(***************************************************************************)
(* extract_json_from_text.  A text is a sequence of characters over Chars, *)
(* each a one-character string; the backquote, which a TLA+ string cannot  *)
(* hold, is written Backquote.  Over Chars no JSON literal (true, false,   *)
(* null), no sign, fraction or exponent and no escape sequence can be      *)
(* spelled, so the decoder's branches for those are not modelled.          *)
(***************************************************************************)
Backquote == "backquote"
Whitespace == {" ", "\n"}
Digits == {"0", "1", "2", "3", "4", "5", "6", "7", "8", "9"}
Letters == {"a", "b", "j", "k", "n", "o", "s", "x", "y"}
WordChars == Letters \cup Digits \cup {"_"}
Chars == WordChars \cup Whitespace \cup {"[", "]", "{", "}", ",", ":", "\"", Backquote}

\* sys.getrecursionlimit(), 1000 unless the caller changed it.
RecursionLimit == 1000

\* What a call of json.loads inside extract_json_from_text takes from that
\* limit before the scanner reads the first value: the frames of
\* extract_json_from_text, loads, decode and raw_decode, and the scanner's
\* own entry (CPython 3.11).
DecoderFrames == 5

\* The frames the caller may have on the stack: 1 is a call from the top
\* level of a script.
MaxFrames == 2

\* The frames of a caller deep in a recursion of its own.
DeepCaller == 975

CallerFrames == (1..MaxFrames) \cup {DeepCaller}

\* How deep arrays and objects may nest before CPython's decoder raises
\* RecursionError on opening one more: what the frames already on the stack
\* leave of the limit. Reporting an error needs room too (Errmsg,
\* SetByScanner).
NestingLeft == RecursionLimit - DecoderFrames - serFrames

\* The levels of that limit the decoder needs to report an error the scanner
\* found (raise_errmsg): the call of JSONDecodeError, its __init__ and a
\* call inside it.
ErrmsgFrames == 3

\* The level an exception set by the scanner (StopIteration, ValueError)
\* needs when another exception is being handled: it is instantiated at
\* once, to take the handled one as its context. Outside a handler it is
\* instantiated after the scanner has returned.
ChainFrames == 1

\* sys.get_int_max_str_digits(): int() of a longer digit string raises
\* ValueError.
MaxStrDigits == 4300

Min(S) == CHOOSE x \in S : \A y \in S : x <= y

\* The first position at or after i that holds no whitespace (Len(t) + 1
\* when there is none).
SkipWs(t, i) == Min({j \in i..(Len(t) + 1) : j = Len(t) + 1 \/ t[j] \notin Whitespace})

\* Whether character c stands at position i.
At(t, i, c) == i >= 1 /\ i <= Len(t) /\ t[i] = c

\* JSON values: numbers, strings, arrays (sequences) and objects (functions
\* from keys to values, as a dict: a repeated key keeps its last value).
Num(n) == [k |-> "num", v |-> n]
Str(chars) == [k |-> "str", v |-> chars]
Arr(elems) == [k |-> "arr", v |-> elems]
Obj(members) == [k |-> "obj", v |-> members]

WithMember(members, key, val) ==
    [x \in (DOMAIN members) \cup {key} |-> IF x = key THEN val ELSE members[x]]

\* A decoding step's result: a value and the position after it, or an error
\* ("decode" for JSONDecodeError, "recursion" for RecursionError, "value"
\* for a ValueError that is not a JSONDecodeError).
Parsed(val, pos) == [err |-> "", val |-> val, pos |-> pos]
Failed(e) == [err |-> e, val |-> Num(0), pos |-> 0]

DigitValue(c) ==
    CASE c = "0" -> 0 [] c = "1" -> 1 [] c = "2" -> 2 [] c = "3" -> 3
      [] c = "4" -> 4 [] c = "5" -> 5 [] c = "6" -> 6 [] c = "7" -> 7
      [] c = "8" -> 8 [] OTHER -> 9

\* The end of the run of digits that starts at i.
DigitsEnd(t, i) == Min({j \in i..(Len(t) + 1) : j = Len(t) + 1 \/ t[j] \notin Digits}) - 1

RECURSIVE DecimalValue(_, _, _)
DecimalValue(t, i, j) ==
    IF j < i THEN 0 ELSE 10 * DecimalValue(t, i, j - 1) + DigitValue(t[j])

\* raise_errmsg with depth arrays and objects open: JSONDecodeError, or
\* RecursionError when the stack has no room to build it.
Errmsg(depth) ==
    IF depth + ErrmsgFrames > NestingLeft THEN Failed("recursion") ELSE Failed("decode")

\* An exception the scanner sets with depth arrays and objects open, inside
\* an except handler (handling) or not: the exception, or RecursionError
\* when it must be instantiated at once and the stack has no room.
SetByScanner(e, depth, handling) ==
    IF handling /\ depth + ChainFrames > NestingLeft THEN Failed("recursion") ELSE Failed(e)

\* raise_stop_iteration: raw_decode turns the StopIteration into a
\* JSONDecodeError ("Expecting value").
ExpectingValue(depth, handling) == SetByScanner("decode", depth, handling)

\* A number: "0", or a run of digits that does not start with "0"; int() of
\* the run raises ValueError when it has more than MaxStrDigits digits.
ParseNumber(t, i, depth, handling) ==
    IF t[i] = "0" THEN Parsed(Num(0), i + 1)
    ELSE LET e == DigitsEnd(t, i)
         IN  IF e - i + 1 > MaxStrDigits THEN SetByScanner("value", depth, handling)
             ELSE Parsed(Num(DecimalValue(t, i, e)), e + 1)

\* A string, entered after its opening quote at i - 1: it runs to the next
\* quote and may hold no control character.
ParseString(t, i, depth) ==
    LET closing == {j \in i..Len(t) : t[j] = "\""}
    IN  IF closing = {} THEN Errmsg(depth)
        ELSE LET j == Min(closing)
             IN  IF \E m \in i..(j - 1) : t[m] = "\n" THEN Errmsg(depth)
                 ELSE Parsed(Str(SubSeq(t, i, j - 1)), j + 1)

RECURSIVE ParseValue(_, _, _, _)
RECURSIVE ParseElements(_, _, _, _, _)
RECURSIVE ParseMembers(_, _, _, _, _)

\* The elements of an array from position i on (after "[" or after ","),
\* depth arrays and objects being open, this array included.
ParseElements(t, i, depth, acc, handling) ==
    LET r == ParseValue(t, i, depth, handling)
    IN  IF r.err # "" THEN r
        ELSE LET j == SkipWs(t, r.pos)
             IN  IF At(t, j, "]") THEN Parsed(Arr(Append(acc, r.val)), j + 1)
                 ELSE IF At(t, j, ",")
                      THEN ParseElements(t, SkipWs(t, j + 1), depth, Append(acc, r.val),
                                         handling)
                      ELSE Errmsg(depth)

\* The members of an object from position i on: a quoted key, a colon, a
\* value, then "}" or a comma and the next member.
ParseMembers(t, i, depth, acc, handling) ==
    IF ~At(t, i, "\"") THEN Errmsg(depth)
    ELSE LET key == ParseString(t, i + 1, depth)
         IN  IF key.err # "" THEN key
             ELSE LET c == SkipWs(t, key.pos)
                  IN  IF ~At(t, c, ":") THEN Errmsg(depth)
                      ELSE LET r == ParseValue(t, SkipWs(t, c + 1), depth, handling)
                           IN  IF r.err # "" THEN r
                               ELSE LET j == SkipWs(t, r.pos)
                                        members == WithMember(acc, key.val.v, r.val)
                                    IN  IF At(t, j, "}") THEN Parsed(Obj(members), j + 1)
                                        ELSE IF At(t, j, ",")
                                             THEN ParseMembers(t, SkipWs(t, j + 1), depth,
                                                               members, handling)
                                             ELSE Errmsg(depth)

\* scan_once at position i, depth arrays and objects being open.
ParseValue(t, i, depth, handling) ==
    IF i > Len(t) THEN ExpectingValue(depth, handling)
    ELSE IF t[i] = "\"" THEN ParseString(t, i + 1, depth)
    ELSE IF t[i] \in {"[", "{"} /\ depth + 1 > NestingLeft THEN Failed("recursion")
    ELSE IF t[i] = "[" THEN
        LET j == SkipWs(t, i + 1)
        IN  IF At(t, j, "]") THEN Parsed(Arr(<<>>), j + 1)
            ELSE ParseElements(t, j, depth + 1, <<>>, handling)
    ELSE IF t[i] = "{" THEN
        LET j == SkipWs(t, i + 1)
        IN  IF At(t, j, "}") THEN Parsed(Obj(<<>>), j + 1)
            ELSE ParseMembers(t, j, depth + 1, <<>>, handling)
    ELSE IF t[i] \in Digits THEN ParseNumber(t, i, depth, handling)
    ELSE ExpectingValue(depth, handling)

\* The number of "[" the text opens with, one inside the other.
LeadingOpen(t) == Cardinality({i \in 1..Len(t) : \A j \in 1..i : t[j] = "["})

\* json.loads, called inside an except handler (handling) or not: one
\* value, whitespace around it, nothing after it.  A text that opens with
\* more than NestingLeft brackets exhausts the limit before any other
\* character is read.
JsonLoads(t, handling) ==
    IF LeadingOpen(t) > NestingLeft THEN Failed("recursion")
    ELSE LET r == ParseValue(t, SkipWs(t, 1), 0, handling)
         IN  IF r.err # "" THEN r
             ELSE IF SkipWs(t, r.pos) = Len(t) + 1 THEN r
             ELSE Failed("decode")

\* ---- the steps of extract_json_from_text ----

\* Whether a run of three backquotes starts at p.
FenceAt(t, p) ==
    /\ p >= 1 /\ p + 2 <= Len(t)
    /\ t[p] = Backquote /\ t[p + 1] = Backquote /\ t[p + 2] = Backquote

FencePositions(t) == {p \in 1..Len(t) : FenceAt(t, p)}

\* Whether the tag "json" starts at p.
JsonTagAt(t, p) ==
    /\ p + 3 <= Len(t)
    /\ t[p] = "j" /\ t[p + 1] = "s" /\ t[p + 2] = "o" /\ t[p + 3] = "n"

\* re.search(r'```(?:json)?\s*([\s\S]*?)```', text): the leftmost opening
\* fence, an optional tag, whitespace, then lazily up to the next fence.
\* CodeBlockStart is where group 1 starts, CodeBlockClose the closing fence.
CodeBlockStart(t) ==
    LET open == Min(FencePositions(t))
    IN  SkipWs(t, IF JsonTagAt(t, open + 3) THEN open + 7 ELSE open + 3)

CodeBlockMatches(t) ==
    /\ FencePositions(t) # {}
    /\ \E c \in FencePositions(t) : c >= CodeBlockStart(t)

CodeBlockGroup(t) ==
    LET from == CodeBlockStart(t)
        close == Min({c \in FencePositions(t) : c >= from})
    IN  SubSeq(t, from, close - 1)

\* str.strip()
Strip(t) ==
    LET solid == {i \in 1..Len(t) : t[i] \notin Whitespace}
    IN  IF solid = {} THEN <<>>
        ELSE SubSeq(t, Min(solid), CHOOSE i \in solid : \A j \in solid : j <= i)

\* Lines 102-104: the text the rest of the function works on.
Unwrapped(t) == IF CodeBlockMatches(t) THEN Strip(CodeBlockGroup(t)) ELSE t

\* text.find('['): the position of the first "[", 0 when there is none.
FindArrayStart(t) ==
    LET opens == {i \in 1..Len(t) : t[i] = "["}
    IN  IF opens = {} THEN 0 ELSE Min(opens)

CountIn(t, from, to, c) == Cardinality({i \in from..to : t[i] = c})

\* Lines 118-129: the positions at which the bracket count returns to 0.
ClosingPositions(t, start) ==
    {i \in start..Len(t) :
        t[i] = "]" /\ CountIn(t, start, i, "[") = CountIn(t, start, i, "]")}

\* The end of the maximal run of word characters that starts at i (i - 1
\* when no word character stands at i).
WordEnd(t, i) ==
    Min({j \in i..(Len(t) + 1) : j = Len(t) + 1 \/ t[j] \notin WordChars}) - 1

\* re.sub(r'(\s*)(\w+)(\s*):(\s*)', r'\1"\2"\3:\4', ...) from position p on:
\* where whitespace, a word, whitespace, a colon and whitespace follow each
\* other, the word is put in quotes; any other character is copied.
RECURSIVE QuoteKeysFrom(_, _)
QuoteKeysFrom(t, p) ==
    IF p > Len(t) THEN <<>>
    ELSE LET w == SkipWs(t, p)
             e == WordEnd(t, w)
             c == SkipWs(t, e + 1)
         IN  IF w <= Len(t) /\ e >= w /\ At(t, c, ":")
             THEN LET next == SkipWs(t, c + 1)
                  IN  SubSeq(t, p, w - 1) \o <<"\"">> \o SubSeq(t, w, e) \o <<"\"">>
                        \o SubSeq(t, e + 1, next - 1) \o QuoteKeysFrom(t, next)
             ELSE <<t[p]>> \o QuoteKeysFrom(t, p + 1)

QuoteKeys(t) == QuoteKeysFrom(t, 1)

\* re.sub(r',(\s*[\]}])', r'\1', ...) from position p on: a comma followed
\* by whitespace and a closing bracket or brace is dropped.
RECURSIVE StripTrailingCommasFrom(_, _)
StripTrailingCommasFrom(t, p) ==
    IF p > Len(t) THEN <<>>
    ELSE LET c == SkipWs(t, p + 1)
         IN  IF t[p] = "," /\ (At(t, c, "]") \/ At(t, c, "}"))
             THEN SubSeq(t, p + 1, c) \o StripTrailingCommasFrom(t, c + 1)
             ELSE <<t[p]>> \o StripTrailingCommasFrom(t, p + 1)

StripTrailingCommas(t) == StripTrailingCommasFrom(t, 1)

\* Lines 140-142 (and 180-182): the two repairs, one after the other.
FixedJson(t) == StripTrailingCommas(QuoteKeys(t))

\* Lines 153-168: scan from position i with brace_count count and obj_start
\* start; each time the count returns to 0 the text from obj_start to the
\* closing brace is appended.
RECURSIVE CompleteObjects(_, _, _, _, _)
CompleteObjects(t, i, count, start, acc) ==
    IF i > Len(t) THEN acc
    ELSE IF t[i] = "{"
         THEN CompleteObjects(t, i + 1, count + 1, IF count = 0 THEN i ELSE start, acc)
    ELSE IF t[i] = "}"
         THEN CompleteObjects(t, i + 1, count - 1, start,
                              IF count - 1 = 0 THEN Append(acc, SubSeq(t, start, i)) ELSE acc)
    ELSE CompleteObjects(t, i + 1, count, start, acc)

\* ",\n".join(objects)
RECURSIVE JoinObjects(_)
JoinObjects(objs) ==
    IF Len(objs) = 0 THEN <<>>
    ELSE IF Len(objs) = 1 THEN objs[1]
    ELSE objs[1] \o <<",", "\n">> \o JoinObjects(Tail(objs))

\* Line 172: "[\n" + ",\n".join(objects) + "\n]"
Reconstructed(objs) == <<"[", "\n">> \o JoinObjects(objs) \o <<"\n", "]">>

\* The outcomes of the call: a returned value, None, or an exception.
Value(v) == [kind |-> "value", val |-> v]
NoneFound == [kind |-> "none", val |-> <<>>]
Raises == [kind |-> "raise", val |-> <<>>]

\* Lines 139-147 (and 179-187): repair and parse again; whatever the parse
\* raises is caught by the bare except, and the function returns None.
ParseRepaired(js) ==
    LET r == JsonLoads(FixedJson(js), TRUE)
    IN  IF r.err = "" THEN Value(r.val) ELSE NoneFound

\* Lines 133-147 (and 173-187), inside the handler of line 110: parse; on
\* JSONDecodeError repair and parse again; any other exception of the first
\* parse is not caught.
ParseOrRepair(js) ==
    LET r == JsonLoads(js, TRUE)
    IN  IF r.err = "" THEN Value(r.val)
        ELSE IF r.err = "decode" THEN ParseRepaired(js)
        ELSE Raises

\* Lines 111-190: what follows a JSONDecodeError of the direct parse.
Recover(t) ==
    LET start == FindArrayStart(t)
    IN  IF start = 0 THEN NoneFound
        ELSE IF ClosingPositions(t, start) # {}
             THEN ParseOrRepair(SubSeq(t, start, Min(ClosingPositions(t, start))))
             ELSE LET objects == CompleteObjects(t, start + 1, 0, 0, <<>>)
                  IN  IF objects # <<>> THEN ParseOrRepair(Reconstructed(objects))
                      ELSE NoneFound

\* extract_json_from_text
ExtractJsonFromText(input) ==
    LET t == Unwrapped(input)
        r == JsonLoads(t, FALSE)
    IN  IF r.err = "" THEN Value(r.val)
        ELSE IF r.err = "decode" THEN Recover(t)
        ELSE Raises

\* ---- the inputs ----
MaxParts == 2

\* The objects the arrays are built from, as JSON text; for each, the same
\* object written with bare keys (and, for some, a trailing comma), and the
\* value it denotes.
\* {"a":1}   /   {a:1}   (a number)
ObjNumber == <<"{", "\"", "a", "\"", ":", "1", "}">>
ObjNumberBare == <<"{", "a", ":", "1", "}">>
ObjNumberValue == Obj(WithMember(<<>>, <<"a">>, Num(1)))

\* {"b":"x"}   /   {b:"x",}   (a string; the variant ends in a comma)
ObjString == <<"{", "\"", "b", "\"", ":", "\"", "x", "\"", "}">>
ObjStringBare == <<"{", "b", ":", "\"", "x", "\"", ",", "}">>
ObjStringValue == Obj(WithMember(<<>>, <<"b">>, Str(<<"x">>)))

\* {"a":[1,2]}   /   {a:[1,2,]}   (a nested array)
ObjArray == <<"{", "\"", "a", "\"", ":", "[", "1", ",", "2", "]", "}">>
ObjArrayBare == <<"{", "a", ":", "[", "1", ",", "2", ",", "]", "}">>
ObjArrayValue == Obj(WithMember(<<>>, <<"a">>, Arr(<<Num(1), Num(2)>>)))

\* {"a":{"b":1}}   /   {a:{b:1}}   (a nested object)
ObjNested == <<"{", "\"", "a", "\"", ":", "{", "\"", "b", "\"", ":", "1", "}", "}">>
ObjNestedBare == <<"{", "a", ":", "{", "b", ":", "1", "}", "}">>
ObjNestedValue == Obj(WithMember(<<>>, <<"a">>, Obj(WithMember(<<>>, <<"b">>, Num(1)))))

\* {"a":"]"}   /   {a:"]"}   (a bracket inside a string)
ObjBracket == <<"{", "\"", "a", "\"", ":", "\"", "]", "\"", "}">>
ObjBracketBare == <<"{", "a", ":", "\"", "]", "\"", "}">>
ObjBracketValue == Obj(WithMember(<<>>, <<"a">>, Str(<<"]">>)))

\* {"a":"}"}   /   {a:"}"}   (a brace inside a string)
ObjBrace == <<"{", "\"", "a", "\"", ":", "\"", "}", "\"", "}">>
ObjBraceBare == <<"{", "a", ":", "\"", "}", "\"", "}">>
ObjBraceValue == Obj(WithMember(<<>>, <<"a">>, Str(<<"}">>)))

\* {"a":"x:y"}   /   {a:"x:y"}   (a colon inside a string)
ObjColon == <<"{", "\"", "a", "\"", ":", "\"", "x", ":", "y", "\"", "}">>
ObjColonBare == <<"{", "a", ":", "\"", "x", ":", "y", "\"", "}">>
ObjColonValue == Obj(WithMember(<<>>, <<"a">>, Str(<<"x", ":", "y">>)))

\* {"a":"```x```"}   /   {a:"```x```"}   (fences inside a string)
ObjFence == <<"{", "\"", "a", "\"", ":", "\"", Backquote, Backquote, Backquote, "x", Backquote, Backquote, Backquote, "\"", "}">>
ObjFenceBare == <<"{", "a", ":", "\"", Backquote, Backquote, Backquote, "x", Backquote, Backquote, Backquote, "\"", "}">>
ObjFenceValue == Obj(WithMember(<<>>, <<"a">>, Str(<<Backquote, Backquote, Backquote, "x", Backquote, Backquote, Backquote>>)))

ObjTexts == {ObjNumber, ObjString, ObjArray, ObjNested, ObjBracket, ObjBrace, ObjColon, ObjFence}

BareKeyed(obj) ==
    CASE obj = ObjNumber -> ObjNumberBare
      [] obj = ObjString -> ObjStringBare
      [] obj = ObjArray -> ObjArrayBare
      [] obj = ObjNested -> ObjNestedBare
      [] obj = ObjBracket -> ObjBracketBare
      [] obj = ObjBrace -> ObjBraceBare
      [] obj = ObjColon -> ObjColonBare
      [] OTHER -> ObjFenceBare

PartValue(obj) ==
    CASE obj = ObjNumber -> ObjNumberValue
      [] obj = ObjString -> ObjStringValue
      [] obj = ObjArray -> ObjArrayValue
      [] obj = ObjNested -> ObjNestedValue
      [] obj = ObjBracket -> ObjBracketValue
      [] obj = ObjBrace -> ObjBraceValue
      [] obj = ObjColon -> ObjColonValue
      [] OTHER -> ObjFenceValue

\* {"a":1}   (a bare object)
RawObject == <<"{", "\"", "a", "\"", ":", "1", "}">>
\* 12   (a bare number)
RawNumber == <<"1", "2">>
\* "x"   (a bare string)
RawString == <<"\"", "x", "\"">>
\*    (the empty text)
RawEmpty == <<>>
\* x   (no JSON at all)
RawWord == <<"x">>
\* [1,2   (an unclosed array of numbers)
RawOpen == <<"[", "1", ",", "2">>
\* x [1] y   (an array inside prose)
RawProse == <<"x", " ", "[", "1", "]", " ", "y">>
\* [1]]   (a stray closing bracket)
RawStray == <<"[", "1", "]", "]">>
\* [{a b:1}]   (a key of two words)
RawBadKey == <<"[", "{", "a", " ", "b", ":", "1", "}", "]">>
\* [01]   (a number with a leading zero)
RawLeadingZero == <<"[", "0", "1", "]">>
\* ["a\nb"]   (a line break inside a string)
RawNewline == <<"[", "\"", "a", "\n", "b", "\"", "]">>
\* {"a":1,"a":2}   (a repeated key)
RawDuplicate == <<"{", "\"", "a", "\"", ":", "1", ",", "\"", "a", "\"", ":", "2", "}">>
\*  [ 1 , 2 ]    (whitespace around every token)
RawSpaced == <<" ", "[", " ", "1", " ", ",", " ", "2", " ", "]", " ">>
\* ```json\nx```   (a fenced block without JSON)
RawFencedWord == <<Backquote, Backquote, Backquote, "j", "s", "o", "n", "\n", "x", Backquote, Backquote, Backquote>>
\* [{"a":1}}{"b":2},{   (a stray closing brace in an unclosed array)
RawDangling == <<"[", "{", "\"", "a", "\"", ":", "1", "}", "}", "{", "\"", "b", "\"", ":", "2", "}", ",", "{">>
\* The least number of brackets, one inside the other, that no caller's
\* stack leaves room for.
DeepNesting == RecursionLimit - DecoderFrames
\* [[[...   (DeepNesting opening brackets)
RawDeep == [i \in 1..DeepNesting |-> "["]
\* [[[...]]]   (a valid array of DeepNesting empty arrays, one in the other)
RawDeepClosed == [i \in 1..(2 * DeepNesting) |-> IF i <= DeepNesting THEN "[" ELSE "]"]
\* x[[[...]]]   (the same array after a word)
RawDeepProse == <<"x">> \o RawDeepClosed
\* The nesting the deep caller's stack leaves room for (NestingLeft when
\* serFrames = DeepCaller).
ShallowNesting == RecursionLimit - DecoderFrames - DeepCaller
\* n opening brackets, the inner text, n closing brackets.
Nested(n, inner) == [i \in 1..n |-> "["] \o inner \o [i \in 1..n |-> "]"]
\* A valid array of ShallowNesting arrays, and one of one array more.
RawNestedFull == Nested(ShallowNesting, <<>>)
RawNestedOver == Nested(ShallowNesting + 1, <<>>)
\* The same arrays after a word.
RawNestedProse == <<"x">> \o RawNestedFull
RawNestedProseOver == <<"x">> \o RawNestedOver
\* A word where a value is expected, inside ShallowNesting arrays, and
\* inside one array less.
RawNestedWord == Nested(ShallowNesting, <<"x">>)
RawNestedWordLess == Nested(ShallowNesting - 1, <<"x">>)
\* A trailing comma at these depths.
RawNestedTrailing == Nested(ShallowNesting, <<"1", ",">>)
RawNestedTrailingLess == Nested(ShallowNesting - 1, <<"1", ",">>)
\* A missing comma where the stack has no room to report it, and one array
\* less deep.
RawNestedComma == Nested(ShallowNesting - ErrmsgFrames + 1, <<"1", " ", "2">>)
RawNestedCommaLess == Nested(ShallowNesting - ErrmsgFrames, <<"1", " ", "2">>)
\* An object with a bare key at these depths, the object counted.
RawNestedBare == Nested(ShallowNesting - ErrmsgFrames, ObjNumberBare)
RawNestedBareLess == Nested(ShallowNesting - ErrmsgFrames - 1, ObjNumberBare)
\* An unterminated string, and a string with a line break, at the depth
\* without room.
RawNestedString == Nested(ShallowNesting - ErrmsgFrames + 1, <<"\"", "x">>)
RawNestedNewline == Nested(ShallowNesting - ErrmsgFrames + 1, <<"\"", "a", "\n", "b", "\"">>)
\* Unclosed arrays that end after an object, at both depths.
RawNestedCut == [i \in 1..(ShallowNesting - ErrmsgFrames + 1) |-> "["] \o ObjNumber
RawNestedCutLess == [i \in 1..(ShallowNesting - ErrmsgFrames) |-> "["] \o ObjNumber
\* [111...1]   (a number of MaxStrDigits + 1 digits)
RawLongNumber == <<"[">> \o [i \in 1..(MaxStrDigits + 1) |-> "1"] \o <<"]">>

RawTexts == {RawObject, RawNumber, RawString, RawEmpty, RawWord, RawOpen, RawProse, RawStray, RawBadKey, RawLeadingZero, RawNewline, RawDuplicate, RawSpaced, RawFencedWord, RawDangling, RawDeep, RawDeepClosed, RawDeepProse, RawLongNumber,
             RawNestedFull, RawNestedOver, RawNestedProse, RawNestedProseOver,
             RawNestedWord, RawNestedWordLess, RawNestedTrailing, RawNestedTrailingLess,
             RawNestedComma, RawNestedCommaLess, RawNestedBare, RawNestedBareLess,
             RawNestedString, RawNestedNewline, RawNestedCut, RawNestedCutLess}

RECURSIVE JoinWithCommas(_)
JoinWithCommas(objs) ==
    IF Len(objs) = 0 THEN <<>>
    ELSE IF Len(objs) = 1 THEN objs[1]
    ELSE objs[1] \o <<",">> \o JoinWithCommas(Tail(objs))

\* The JSON array of the given objects, without whitespace.
Doc(objs) == <<"[">> \o JoinWithCommas(objs) \o <<"]">>

\* The array in a fenced code block tagged json.
Fenced(t) ==
    <<Backquote, Backquote, Backquote, "j", "s", "o", "n", "\n">> \o t
        \o <<"\n", Backquote, Backquote, Backquote>>

\* The array written with bare keys and trailing commas, one before "]" too.
SloppyDoc(objs) ==
    <<"[">> \o JoinWithCommas([i \in 1..Len(objs) |-> BareKeyed(objs[i])]) \o <<",", "]">>

\* The positions of the opening and closing brace of the m-th object in Doc.
RECURSIVE ObjOpen(_, _)
ObjOpen(objs, m) == IF m = 1 THEN 2 ELSE ObjOpen(objs, m - 1) + Len(objs[m - 1]) + 1
ObjClose(objs, m) == ObjOpen(objs, m) + Len(objs[m]) - 1

\* The lengths of the prefixes of Doc that end inside the m-th object: its
\* opening brace is in, its closing brace is out.
CutsInside(objs, m) == ObjOpen(objs, m)..(ObjClose(objs, m) - 1)

SerInit ==
    /\ serOut = NotRun
    /\ serFrames \in CallerFrames
    /\ \/ /\ serForm \in {"bare", "fenced", "sloppy"}
          /\ serParts \in SeqsUpTo(ObjTexts, MaxParts)
          /\ serForm = "sloppy" => serParts # <<>>
          /\ serCut = 0
          /\ text = CASE serForm = "bare" -> Doc(serParts)
                      [] serForm = "fenced" -> Fenced(Doc(serParts))
                      [] OTHER -> SloppyDoc(serParts)
       \/ /\ serForm = "cut"
          /\ serParts \in SeqsUpTo(ObjTexts, MaxParts)
          /\ \E m \in 1..Len(serParts) :
                /\ serCut \in CutsInside(serParts, m)
                /\ text = SubSeq(Doc(serParts), 1, serCut)
       \/ /\ serForm = "raw"
          /\ serParts = <<>>
          /\ serCut = 0
          /\ text \in RawTexts

\* One call of extract_json_from_text on the input.
Extract ==
    /\ serOut = NotRun
    /\ serOut' = ExtractJsonFromText(text)
    /\ UNCHANGED <<serParts, serForm, serCut, text, serFrames>>

SerNext == Extract

(***************************************************************************)
(* GraphFilter.get_subgraph_around_entity.                                 *)
(***************************************************************************)
MaxTriples == 3
MaxHops == 3

\* Entity names; confidence is counted in tenths (10 is 1.0, 6 is 0.6).
Names == {"A", "B", "C", "a", "b", "c"}

\* str.lower() on the names of the model.
Lower(s) ==
    CASE s = "A" -> "a"
      [] s = "B" -> "b"
      [] s = "C" -> "c"
      [] s = "P" -> "p"
      [] s = "Q" -> "q"
      [] OTHER   -> s

Triple(s, p, o, inf, ch, conf) ==
    [subject |-> s, predicate |-> p, object |-> o,
     inferred |-> inf, chunk |-> ch, confidence |-> conf]

\* The triples the input lists are drawn from.
TripleUniverse ==
    { Triple("A", "p", "B", FALSE, 0, 10),
      Triple("B", "q", "C", TRUE, 0, 6),
      Triple("a", "p", "b", FALSE, 0, 10),
      Triple("b", "q", "c", TRUE, 1, 6),
      Triple("c", "p", "c", FALSE, 1, 3),
      Triple("a", "q", "B", FALSE, 1, 8) }

\* The centers asked for; "z" names no entity.
Centers == {"A", "C", "a", "b", "c", "z"}

\* adjacency: each subject and object mapped to the set of its neighbours,
\* under the names as written in the triples; a name that is no key has none
\* (adjacency.get(current_entity, [])).
Adjacency(ts, n) ==
    {ts[i].object : i \in {j \in 1..Len(ts) : ts[j].subject = n}}
    \cup {ts[i].subject : i \in {j \in 1..Len(ts) : ts[j].object = n}}

\* The orders in which a set can be iterated: the order in which Python
\* iterates over a set of strings depends on the hash seed.
Orders(S) ==
    {o \in [1..Cardinality(S) -> S] : \A i, j \in 1..Cardinality(S) : o[i] = o[j] => i = j}

\* A variant of the neighbour loop that stops after the first neighbour.
EnqueuedFirstOnly(order, distance) ==
    IF order = <<>> THEN <<>> ELSE << <<order[1], distance + 1>> >>

\* for neighbor in adjacency.get(current_entity, []): the pairs appended for
\* the unvisited neighbours, taken in the given order.
Enqueued(order, distance) ==
    [i \in 1..Len(order) |-> <<order[i], distance + 1>>]

\* A variant of the loop that lets an entity one hop beyond max_hops in.
RECURSIVE BfsLoopOneMore(_, _, _, _)
BfsLoopOneMore(ts, queue, visited, hops) ==
    IF queue = <<>> THEN {visited}
    ELSE LET current == Head(queue)[1]
             distance == Head(queue)[2]
         IN  IF current \in visited \/ distance > hops + 1
             THEN BfsLoopOneMore(ts, Tail(queue), visited, hops)
             ELSE LET seen == visited \cup {current}
                  IN  UNION {BfsLoopOneMore(ts, Tail(queue) \o Enqueued(order, distance),
                                            seen, hops) :
                                order \in Orders(Adjacency(ts, current) \ seen)}

\* The while-queue loop: pop the head; skip it when it was visited or lies
\* beyond max_hops; else visit it and append its unvisited neighbours. The
\* visited sets the loop can end with, one for each choice of the orders in
\* which the neighbours are taken.
RECURSIVE BfsLoop(_, _, _, _)
BfsLoop(ts, queue, visited, hops) ==
    IF queue = <<>> THEN {visited}
    ELSE LET current == Head(queue)[1]
             distance == Head(queue)[2]
         IN  IF current \in visited \/ distance > hops
             THEN BfsLoop(ts, Tail(queue), visited, hops)
             ELSE LET seen == visited \cup {current}
                  IN  UNION {BfsLoop(ts, Tail(queue) \o Enqueued(order, distance),
                                     seen, hops) :
                                order \in Orders(Adjacency(ts, current) \ seen)}

\* entities_in_subgraph: the search starts from the lower-cased center (the
\* sets it can end as).
EntitiesInSubgraph(ts, center, hops) ==
    BfsLoop(ts, << <<Lower(center), 0>> >>, {}, hops)

\* The final filter compares the lower-cased subject and object.
InSubgraph(t, ents) == Lower(t.subject) \in ents /\ Lower(t.object) \in ents

\* get_subgraph_around_entity: the lists the call can return.
GetSubgraphAroundEntity(ts, center, hops) ==
    {LET keep(t) == InSubgraph(t, ents) IN SelectSeq(ts, keep) :
        ents \in EntitiesInSubgraph(ts, center, hops)}

Listed(l) == [kind |-> "list", val |-> l]

GfInit ==
    /\ triples \in SeqsUpTo(TripleUniverse, MaxTriples)
    /\ entity \in Centers
    /\ max_hops \in 0..MaxHops
    /\ gfOut = NotRun

Subgraph ==
    /\ gfOut = NotRun
    /\ \E out \in GetSubgraphAroundEntity(triples, entity, max_hops) :
         gfOut' = Listed(out)
    /\ UNCHANGED <<triples, entity, max_hops>>

GfNext == Subgraph

(***************************************************************************)
(* The same function step by step: one action per turn of the while loop,  *)
(* the neighbours of the visited entity appended in any order.             *)
(***************************************************************************)
\* The triples the lists of the step-by-step run are drawn from; a, b and c
\* form a cycle, so an entity is reached along paths of different lengths.
BfsUniverse ==
    { Triple("a", "p", "b", FALSE, 0, 10),
      Triple("b", "q", "c", TRUE, 1, 6),
      Triple("a", "q", "c", FALSE, 1, 8),
      Triple("c", "p", "c", FALSE, 1, 3),
      Triple("A", "p", "B", FALSE, 0, 10),
      Triple("a", "q", "B", FALSE, 1, 8) }

BfsCenters == {"a", "b", "C", "z"}

BfsInit ==
    /\ triples \in SeqsUpTo(BfsUniverse, MaxTriples)
    /\ entity \in BfsCenters
    /\ max_hops \in 0..MaxHops
    /\ gfOut = NotRun
    /\ bfsQueue = << <<Lower(entity), 0>> >>
    /\ bfsVisited = {}

\* A turn of the loop that pops an entity already visited or beyond max_hops.
BfsSkip ==
    /\ gfOut = NotRun /\ bfsQueue # <<>>
    /\ LET current_entity == Head(bfsQueue)[1]
           distance == Head(bfsQueue)[2]
       IN  /\ current_entity \in bfsVisited \/ distance > max_hops
           /\ bfsQueue' = Tail(bfsQueue)
    /\ UNCHANGED <<triples, entity, max_hops, gfOut, bfsVisited>>

\* A turn of the loop that visits the popped entity.
BfsVisit ==
    /\ gfOut = NotRun /\ bfsQueue # <<>>
    /\ LET current_entity == Head(bfsQueue)[1]
           distance == Head(bfsQueue)[2]
       IN  /\ ~(current_entity \in bfsVisited \/ distance > max_hops)
           /\ bfsVisited' = bfsVisited \cup {current_entity}
           /\ \E order \in Orders(Adjacency(triples, current_entity) \ bfsVisited') :
                 bfsQueue' = Tail(bfsQueue) \o Enqueued(order, distance)
    /\ UNCHANGED <<triples, entity, max_hops, gfOut>>

\* The queue is empty: the final filter, and the return.
BfsReturn ==
    /\ gfOut = NotRun /\ bfsQueue = <<>>
    /\ LET keep(t) == InSubgraph(t, bfsVisited)
       IN  gfOut' = Listed(SelectSeq(triples, keep))
    /\ UNCHANGED <<triples, entity, max_hops, bfsQueue, bfsVisited>>

BfsNext == BfsSkip \/ BfsVisit \/ BfsReturn

(***************************************************************************)
(* GraphFilter: the five record filters, and the operations as called with *)
(* arguments chosen at the call.                                           *)
(***************************************************************************)
\* triple.get(key, default)
Get(t, key, default) == IF key \in DOMAIN t THEN t[key] ELSE default

\* The default of triple.get('confidence', 1.0), in tenths.
DefaultConfidence == 10

\* A triple that carries only its three names.
BareTriple == [subject |-> "C", predicate |-> "P", object |-> "a"]

\* The triples the filters' input lists are drawn from.
FilterUniverse == TripleUniverse \cup {BareTriple}

\* set(x.lower() for x in names)
LowerSet(names) == {Lower(names[i]) : i \in 1..Len(names)}

\* A variant of filter_by_entities that looks at the subject only.
FilterByEntitiesSubjectOnly(ts, entities, include_mode) ==
    LET entities_set == LowerSet(entities)
        has_entity(t) == Lower(Get(t, "subject", "")) \in entities_set
        keep(t) == \/ include_mode /\ has_entity(t)
                   \/ ~include_mode /\ ~has_entity(t)
    IN  SelectSeq(ts, keep)

FilterByEntities(ts, entities, include_mode) ==
    LET entities_set == LowerSet(entities)
        has_entity(t) == \/ Lower(Get(t, "subject", "")) \in entities_set
                         \/ Lower(Get(t, "object", "")) \in entities_set
        keep(t) == \/ include_mode /\ has_entity(t)
                   \/ ~include_mode /\ ~has_entity(t)
    IN  SelectSeq(ts, keep)

FilterByRelationships(ts, relationships, include_mode) ==
    LET relationships_set == LowerSet(relationships)
        has_relationship(t) == Lower(Get(t, "predicate", "")) \in relationships_set
        keep(t) == \/ include_mode /\ has_relationship(t)
                   \/ ~include_mode /\ ~has_relationship(t)
    IN  SelectSeq(ts, keep)

FilterByInferenceStatus(ts, include_inferred, include_original) ==
    LET is_inferred(t) == Get(t, "inferred", FALSE)
        keep(t) == \/ is_inferred(t) /\ include_inferred
                   \/ ~is_inferred(t) /\ include_original
    IN  SelectSeq(ts, keep)

\* A variant of filter_by_confidence whose loop starts at the second triple.
FilterByConfidenceSkipFirst(ts, min_confidence, max_confidence) ==
    LET confidence(t) == Get(t, "confidence", DefaultConfidence)
        keep(t) == min_confidence <= confidence(t) /\ confidence(t) <= max_confidence
    IN  IF ts = <<>> THEN <<>> ELSE SelectSeq(Tail(ts), keep)

FilterByConfidence(ts, min_confidence, max_confidence) ==
    LET confidence(t) == Get(t, "confidence", DefaultConfidence)
        keep(t) == min_confidence <= confidence(t) /\ confidence(t) <= max_confidence
    IN  SelectSeq(ts, keep)

\* A variant of filter_by_chunk that collects the triples chunk by chunk.
FilterByChunkGrouped(ts, chunks) ==
    LET in_chunk(c) == LET keep(t) == Get(t, "chunk", 0) = c IN SelectSeq(ts, keep)
    IN  IF Len(chunks) = 0 THEN <<>>
        ELSE IF Len(chunks) = 1 THEN in_chunk(chunks[1])
        ELSE in_chunk(chunks[2]) \o in_chunk(chunks[1])

FilterByChunk(ts, chunks) ==
    LET chunks_set == Range(chunks)
        keep(t) == Get(t, "chunk", 0) \in chunks_set
    IN  SelectSeq(ts, keep)

\* The arguments the operations are called with.
EntityLists == {<<>>, <<"a">>, <<"B", "z">>, <<"A", "c">>}
RelationshipLists == {<<>>, <<"p">>, <<"Q">>, <<"P", "q">>}
ConfidenceBounds == {0, 6, 7, 10}
ChunkLists == {<<>>, <<0>>, <<1>>, <<0, 1>>, <<2>>}

NoArg == [op |-> "none"]

FltInit ==
    /\ triples \in SeqsUpTo(FilterUniverse, MaxTriples)
    /\ entity = "" /\ max_hops = 0
    /\ gfOut = NotRun /\ gfOp = "none" /\ gfArg = NoArg

CallEntities ==
    /\ gfOp = "none"
    /\ \E es \in EntityLists, m \in BOOLEAN :
         /\ gfOut' = Listed(FilterByEntities(triples, es, m))
         /\ gfArg' = [entities |-> es, include_mode |-> m]
    /\ gfOp' = "entities"
    /\ UNCHANGED <<triples, entity, max_hops>>

CallRelationships ==
    /\ gfOp = "none"
    /\ \E rs \in RelationshipLists, m \in BOOLEAN :
         /\ gfOut' = Listed(FilterByRelationships(triples, rs, m))
         /\ gfArg' = [relationships |-> rs, include_mode |-> m]
    /\ gfOp' = "relationships"
    /\ UNCHANGED <<triples, entity, max_hops>>

CallInferenceStatus ==
    /\ gfOp = "none"
    /\ \E inf \in BOOLEAN, orig \in BOOLEAN :
         /\ gfOut' = Listed(FilterByInferenceStatus(triples, inf, orig))
         /\ gfArg' = [include_inferred |-> inf, include_original |-> orig]
    /\ gfOp' = "inference"
    /\ UNCHANGED <<triples, entity, max_hops>>

CallConfidence ==
    /\ gfOp = "none"
    /\ \E lo \in ConfidenceBounds, hi \in ConfidenceBounds :
         /\ gfOut' = Listed(FilterByConfidence(triples, lo, hi))
         /\ gfArg' = [min_confidence |-> lo, max_confidence |-> hi]
    /\ gfOp' = "confidence"
    /\ UNCHANGED <<triples, entity, max_hops>>

CallChunk ==
    /\ gfOp = "none"
    /\ \E cs \in ChunkLists :
         /\ gfOut' = Listed(FilterByChunk(triples, cs))
         /\ gfArg' = [chunks |-> cs]
    /\ gfOp' = "chunk"
    /\ UNCHANGED <<triples, entity, max_hops>>

CallNeighbourhood ==
    /\ gfOp = "none"
    /\ \E c \in Centers, h \in 0..MaxHops :
         /\ \E out \in GetSubgraphAroundEntity(triples, c, h) : gfOut' = Listed(out)
         /\ gfArg' = [center |-> c, max_hops |-> h]
    /\ gfOp' = "neighbourhood"
    /\ UNCHANGED <<triples, entity, max_hops>>

FltNext ==
    \/ CallEntities
    \/ CallRelationships
    \/ CallInferenceStatus
    \/ CallConfidence
    \/ CallChunk
    \/ CallNeighbourhood

(***************************************************************************)
(* apply_filtering (cli.py).  A comma-separated option is the sequence of  *)
(* its items, stripped; the empty sequence is the option not given.        *)
(* min_confidence is in tenths.                                            *)
(***************************************************************************)
\* filter_by_confidence's default max_confidence, 1.0, in tenths.
DefaultMaxConfidence == 10

\* The six record stages of apply_filtering, each applied to the list the
\* stage before it left.
RecordStages(ts, args) ==
    LET s1 == IF args.filter_entities # <<>>
              THEN FilterByEntities(ts, args.filter_entities, TRUE) ELSE ts
        s2 == IF args.exclude_entities # <<>>
              THEN FilterByEntities(s1, args.exclude_entities, FALSE) ELSE s1
        s3 == IF args.filter_relationships # <<>>
              THEN FilterByRelationships(s2, args.filter_relationships, TRUE) ELSE s2
        s4 == IF args.exclude_relationships # <<>>
              THEN FilterByRelationships(s3, args.exclude_relationships, FALSE) ELSE s3
        s5 == IF args.only_original THEN FilterByInferenceStatus(s4, FALSE, TRUE)
              ELSE IF args.only_inferred THEN FilterByInferenceStatus(s4, TRUE, FALSE)
              ELSE s4
    IN  IF args.min_confidence > 0
        THEN FilterByConfidence(s5, args.min_confidence, DefaultMaxConfidence) ELSE s5

\* A variant that takes the neighbourhood before the other stages.
ApplyFilteringNeighbourhoodFirst(ts, args) ==
    IF args.subgraph_entity # ""
    THEN {RecordStages(s0, args) :
            s0 \in GetSubgraphAroundEntity(ts, args.subgraph_entity, args.subgraph_hops)}
    ELSE {RecordStages(ts, args)}

\* apply_filtering: the record stages, then the neighbourhood of what they
\* left (the lists the call can return).
ApplyFiltering(ts, args) ==
    IF args.subgraph_entity # ""
    THEN GetSubgraphAroundEntity(RecordStages(ts, args), args.subgraph_entity,
                                 args.subgraph_hops)
    ELSE {RecordStages(ts, args)}

\* The option values apply_filtering is called with.
AfOptions ==
    [filter_entities : {<<>>, <<"a", "C">>},
     exclude_entities : {<<>>, <<"b">>},
     filter_relationships : {<<>>, <<"p">>},
     exclude_relationships : {<<>>, <<"Q">>},
     only_original : BOOLEAN, only_inferred : BOOLEAN,
     min_confidence : {0, 7},
     subgraph_entity : {"", "a", "C"},
     subgraph_hops : {1, 2}]

AfInit ==
    /\ triples \in SeqsUpTo(TripleUniverse, MaxTriples)
    /\ entity = "" /\ max_hops = 0
    /\ gfOut = NotRun /\ gfOp = "none" /\ gfArg = NoArg

CallApplyFiltering ==
    /\ gfOp = "none"
    /\ \E args \in AfOptions :
         /\ \E out \in ApplyFiltering(triples, args) : gfOut' = Listed(out)
         /\ gfArg' = args
    /\ gfOp' = "apply_filtering"
    /\ UNCHANGED <<triples, entity, max_hops>>

AfNext == CallApplyFiltering

(***************************************************************************)
(* export_multiple_formats: one loop iteration per requested format.       *)
(***************************************************************************)
MaxFormats == 2

\* The names the if/elif chain dispatches on, and one it does not know.
KnownFormats == {"json", "csv", "graphml", "gexf", "turtle"}
FormatNames == KnownFormats \cup {"html"}

\* What an exporter call meets: it returns its statistics ("none"), or it
\* raises: an OSError from open(), or a TypeError or NetworkXError from the
\* serialisation of the data.
FailureKinds == {"none", "OSError", "TypeError"}

\* The classes "except Exception" catches, among those the exporters raise.
ExceptionSubclasses == {"OSError", "TypeError"}

NoEntry == [status |-> "none", file_path |-> "", error |-> ""]

\* output_path = f"{base_filename}.{format_name}": the suffix names the path.
SuccessEntry(f) == [status |-> "success", file_path |-> f, error |-> ""]
ErrorEntry(kind) == [status |-> "error", file_path |-> "", error |-> kind]

EmptyExportResults == [f \in FormatNames |-> NoEntry]

\* A variant of the handler that catches I/O errors only.
CaughtOnlyOSError(kind) == kind = "OSError"

\* except Exception as e
Caught(kind) == kind \in ExceptionSubclasses

\* What exporting format f meets; an unknown name calls no exporter.
Exporter(f) == IF f \in KnownFormats THEN exportFails[f] ELSE "none"

\* The results dict after the loop body ran for format f.
ExportIteration(f, res) ==
    IF f \notin KnownFormats THEN res
    ELSE IF Exporter(f) = "none" THEN [res EXCEPT ![f] = SuccessEntry(f)]
    ELSE [res EXCEPT ![f] = ErrorEntry(Exporter(f))]

MfeInit ==
    /\ formats \in SeqsUpTo(FormatNames, MaxFormats)
    /\ exportFails \in [KnownFormats -> FailureKinds]
    /\ exportPos = 0
    /\ exportResults = EmptyExportResults
    /\ exportPc = "loop"

\* One iteration of "for format_name in formats".
ExportStep ==
    /\ exportPc = "loop" /\ exportPos < Len(formats)
    /\ LET f == formats[exportPos + 1]
       IN  IF Exporter(f) # "none" /\ ~Caught(Exporter(f))
           THEN /\ exportPc' = "raised"
                /\ UNCHANGED exportResults
           ELSE /\ exportResults' = ExportIteration(f, exportResults)
                /\ UNCHANGED exportPc
    /\ exportPos' = exportPos + 1
    /\ UNCHANGED <<formats, exportFails>>

\* return results
ExportReturn ==
    /\ exportPc = "loop" /\ exportPos = Len(formats)
    /\ exportPc' = "returned"
    /\ UNCHANGED <<formats, exportFails, exportPos, exportResults>>

MfeNext == ExportStep \/ ExportReturn

(***************************************************************************)
(* _process_single_file with the exports of its success record; the        *)
(* exporters fail as exportFails says.                                     *)
(***************************************************************************)
\* export_multiple_formats run to its end on the given formats, from the
\* given results dict.
RECURSIVE ExportMultipleFormats(_, _)
ExportMultipleFormats(fmts, res) ==
    IF fmts = <<>> THEN [raised |-> FALSE, results |-> res]
    ELSE IF Exporter(Head(fmts)) # "none" /\ ~Caught(Exporter(Head(fmts)))
         THEN [raised |-> TRUE, results |-> res]
    ELSE ExportMultipleFormats(Tail(fmts), ExportIteration(Head(fmts), res))

\* _process_single_file: whether the call raised and, when it returned, the
\* record and the dict under its "exports" key (only a success record has
\* one). The exports run after the triples were found; what they return is
\* stored and not looked at. The statistics are computed after the exports.
DocumentRecord(path, out) ==
    LET run == ProcessSingleFile(path, out)
        base == run.rec
        exported == ExportMultipleFormats(BatchFormats, EmptyExportResults)
    IN  IF out \notin YieldsTriples
        THEN [raised |-> run.raised, record |-> base, exports |-> EmptyExportResults]
        ELSE IF exported.raised
        THEN [raised |-> TRUE, record |-> NoRecord, exports |-> EmptyExportResults]
        ELSE IF base.status # "success"
        THEN [raised |-> FALSE, record |-> base, exports |-> EmptyExportResults]
        ELSE [raised |-> FALSE, record |-> base, exports |-> exported.results]

PsfInit ==
    /\ psfPath \in Paths
    /\ psfOutcome \in Outcomes
    /\ psfRecord = NotRun
    /\ formats = BatchFormats
    /\ exportFails \in [KnownFormats -> FailureKinds]
    /\ exportPos = 0
    /\ exportResults = EmptyExportResults
    /\ exportPc = "idle"

\* self._process_single_file(input_file, output_base)
ProcessDocument ==
    /\ psfRecord = NotRun
    /\ psfRecord' = [kind |-> IF DocumentRecord(psfPath, psfOutcome).raised
                               THEN "raised" ELSE "returned",
                      val |-> DocumentRecord(psfPath, psfOutcome)]
    /\ UNCHANGED <<psfPath, psfOutcome, mfeVars>>

PsfNext == ProcessDocument

(***************************************************************************)
(* PerformanceAnalyzer.analyze_batch_results.  Times are counted in whole  *)
(* ticks; a quotient is kept as the pair of its numerator and denominator. *)
(***************************************************************************)
MaxTime == 2

\* The records of batch_results["results"] the analysis reads.
AbsentRecord == [status |-> "none", processing_time |-> 0, triples_extracted |-> 0,
                 unique_entities |-> 0, unique_relationships |-> 0]
FailedRecord == [status |-> "error", processing_time |-> 0, triples_extracted |-> 0,
                 unique_entities |-> 0, unique_relationships |-> 0]
SucceededRecord(time, n) ==
    [status |-> "success", processing_time |-> time, triples_extracted |-> n,
     unique_entities |-> n + 1, unique_relationships |-> 1]

AnalysisRecords ==
    {AbsentRecord, FailedRecord}
    \cup {SucceededRecord(time, n) : time \in 0..MaxTime, n \in 1..2}

RECURSIVE SumOver(_, _, _)
SumOver(res, field, S) ==
    IF S = {} THEN 0
    ELSE LET k == CHOOSE x \in S : TRUE
         IN  res[k][field] + SumOver(res, field, S \ {k})

\* min(...) and max(...) of a field over a non-empty set of records.
MinOver(res, field, S) ==
    CHOOSE v \in {res[k][field] : k \in S} : \A k \in S : v <= res[k][field]
MaxOver(res, field, S) ==
    CHOOSE v \in {res[k][field] : k \in S} : \A k \in S : v >= res[k][field]

Quotient(n, d) == [num |-> n, den |-> d]

\* successful_results: the records whose status is "success".
SuccessfulResults(res) == {k \in DOMAIN res : res[k].status = "success"}

AnalysisValue(a) == [kind |-> "value", val |-> a]
AnalysisRaises(e) == [kind |-> "raise", val |-> e]

\* analyze_batch_results: the dict is built top to bottom; the divisions by
\* len(...) come first and have a non-zero divisor, the two divisions by
\* sum(processing_times) / 3600 and / 60 come last.
AnalyzeBatchResults(res) ==
    LET succ == SuccessfulResults(res)
        n == Cardinality(succ)
        time == SumOver(res, "processing_time", succ)
        count == SumOver(res, "triples_extracted", succ)
    IN  IF succ = {} THEN AnalysisValue([status |-> "no_successful_results"])
        ELSE IF time = 0 THEN AnalysisRaises("ZeroDivisionError")
        ELSE AnalysisValue(
               [status |-> "",
                avg_processing_time |-> Quotient(time, n),
                min_processing_time |-> MinOver(res, "processing_time", succ),
                max_processing_time |-> MaxOver(res, "processing_time", succ),
                total_processing_time |-> time,
                avg_triples_per_file |-> Quotient(count, n),
                min_triples_per_file |-> MinOver(res, "triples_extracted", succ),
                max_triples_per_file |-> MaxOver(res, "triples_extracted", succ),
                total_triples |-> count,
                avg_entities_per_file |->
                    Quotient(SumOver(res, "unique_entities", succ), n),
                avg_relationships_per_file |->
                    Quotient(SumOver(res, "unique_relationships", succ), n),
                files_per_hour |-> Quotient(n * 3600, time),
                triples_per_minute |-> Quotient(count * 60, time)])

PaInit ==
    /\ batchResults \in [Paths -> AnalysisRecords]
    /\ analysis = NotRun

Analyze ==
    /\ analysis = NotRun
    /\ analysis' = AnalyzeBatchResults(batchResults)
    /\ UNCHANGED batchResults

PaNext == Analyze

(***************************************************************************)
(* ExportManager: export_to_rdf_turtle, export_to_graphml, export_to_gexf. *)
(* A name is a sequence of characters; a written line is a sequence of     *)
(* pieces of text, the characters of a name among them.                    *)
(***************************************************************************)
\* The triples the exporters' input lists are drawn from: a parallel pair,
\* a reversed pair, an empty subject, names with spaces, hyphens and
\* parentheses, a name of parentheses only, and a triple with names only.
ExportUniverse ==
    { Triple(<<"a">>, <<"p">>, <<"b">>, FALSE, 0, 10),
      Triple(<<"a">>, <<"q">>, <<"b">>, TRUE, 1, 6),
      Triple(<<"b">>, <<"p">>, <<"a">>, FALSE, 0, 10),
      Triple(<<>>, <<"p">>, <<"b">>, FALSE, 0, 10),
      Triple(<<"a", " ", "b">>, <<"p", "-", "q">>, <<"(", "c", ")">>, TRUE, 0, 8),
      Triple(<<"(", ")">>, <<"p">>, <<"b">>, FALSE, 1, 10),
      [subject |-> <<"a">>, predicate |-> <<"p">>, object |-> <<"a">>] }

\* _format_uri: text.replace(' ', '_').replace('-', '_').replace('(', '')
\* .replace(')', '')
FormatUri(name) ==
    LET underscored == [i \in 1..Len(name) |->
                          IF name[i] \in {" ", "-"} THEN "_" ELSE name[i]]
        kept(c) == c \notin {"(", ")"}
    IN  SelectSeq(underscored, kept)

\* The three @prefix lines; the last one ends in a blank line.
TurtleHeader ==
    << <<"@prefix kg: <http://example.org/knowledge-graph/> .">>,
       <<"@prefix rdf: <http://www.w3.org/1999/02/22-rdf-syntax-ns#> .">>,
       <<"@prefix rdfs: <http://www.w3.org/2000/01/rdf-schema#> .">>,
       <<>> >>

\* f"kg:{subject} kg:{predicate} kg:{obj} ."
TurtleLine(s, p, o) == <<"kg:">> \o s \o <<" kg:">> \o p \o <<" kg:">> \o o \o <<" .">>

\* The lines the loop writes: a triple one of whose formatted names is
\* empty is passed over.
RECURSIVE TurtleLines(_)
TurtleLines(ts) ==
    IF ts = <<>> THEN <<>>
    ELSE LET subject == FormatUri(Get(Head(ts), "subject", <<>>))
             predicate == FormatUri(Get(Head(ts), "predicate", <<>>))
             obj == FormatUri(Get(Head(ts), "object", <<>>))
         IN  (IF subject # <<>> /\ predicate # <<>> /\ obj # <<>>
              THEN <<TurtleLine(subject, predicate, obj)>> ELSE <<>>)
             \o TurtleLines(Tail(ts))

ExportToRdfTurtle(ts) ==
    [format |-> "RDF Turtle",
     file |-> TurtleHeader \o TurtleLines(ts),
     total_triples |-> Len(ts)]

\* nx.DiGraph(): the node names and, for each ordered pair of nodes, at most
\* one edge with its attributes.
EmptyGraph == [nodes |-> {}, edges |-> {}]

\* A variant on a MultiDiGraph: an edge from u to v that exists already is
\* kept beside the new one.
AddEdgeMulti(G, edge) ==
    [nodes |-> G.nodes \cup {edge.source, edge.target},
     edges |-> G.edges \cup {edge}]

\* G.add_edge(u, v, **attrs) on a DiGraph: an edge from u to v that exists
\* already is kept and its attributes are overwritten.
AddEdge(G, edge) ==
    [nodes |-> G.nodes \cup {edge.source, edge.target},
     edges |-> {e \in G.edges : ~(e.source = edge.source /\ e.target = edge.target)}
               \cup {edge}]

\* The edge export_to_graphml adds for a triple.
GraphmlEdge(t) ==
    [source |-> Get(t, "subject", <<>>), target |-> Get(t, "object", <<>>),
     relationship |-> Get(t, "predicate", <<>>),
     inferred |-> Get(t, "inferred", FALSE),
     chunk |-> Get(t, "chunk", 0),
     confidence |-> Get(t, "confidence", DefaultConfidence)]

\* The edge export_to_gexf adds for a triple; the weight is in tenths.
GexfEdge(t) ==
    [source |-> Get(t, "subject", <<>>), target |-> Get(t, "object", <<>>),
     label |-> Get(t, "predicate", <<>>),
     weight |-> IF ~Get(t, "inferred", FALSE) THEN 10 ELSE 5]

\* if subject and obj and predicate
HasAllNames(t) ==
    /\ Get(t, "subject", <<>>) # <<>>
    /\ Get(t, "object", <<>>) # <<>>
    /\ Get(t, "predicate", <<>>) # <<>>

\* The loop over the triples that builds G for graphml.
RECURSIVE GraphmlGraph(_, _)
GraphmlGraph(ts, G) ==
    IF ts = <<>> THEN G
    ELSE GraphmlGraph(Tail(ts),
            IF HasAllNames(Head(ts)) THEN AddEdge(G, GraphmlEdge(Head(ts))) ELSE G)

\* The loop over the triples that builds G for gexf.
RECURSIVE GexfGraph(_, _)
GexfGraph(ts, G) ==
    IF ts = <<>> THEN G
    ELSE GexfGraph(Tail(ts),
            IF HasAllNames(Head(ts)) THEN AddEdge(G, GexfEdge(Head(ts))) ELSE G)

\* What the graph exporters return, with the graph nx writes to the file.
GraphExport(format, G) ==
    [format |-> format, graph |-> G,
     total_nodes |-> Cardinality(G.nodes), total_edges |-> Cardinality(G.edges)]

ExportToGraphml(ts) == GraphExport("GraphML", GraphmlGraph(ts, EmptyGraph))
ExportToGexf(ts) == GraphExport("GEXF", GexfGraph(ts, EmptyGraph))

ExpInit ==
    /\ expTriples \in SeqsUpTo(ExportUniverse, MaxTriples)
    /\ expOut = NotRun

CallTurtle ==
    /\ expOut = NotRun
    /\ expOut' = [kind |-> "turtle", val |-> ExportToRdfTurtle(expTriples)]
    /\ UNCHANGED expTriples

CallGraphml ==
    /\ expOut = NotRun
    /\ expOut' = [kind |-> "graphml", val |-> ExportToGraphml(expTriples)]
    /\ UNCHANGED expTriples

CallGexf ==
    /\ expOut = NotRun
    /\ expOut' = [kind |-> "gexf", val |-> ExportToGexf(expTriples)]
    /\ UNCHANGED expTriples

ExpNext == CallTurtle \/ CallGraphml \/ CallGexf

(***************************************************************************)
(* Neo4jIntegration (connect, import_knowledge_graph, close),              *)
(* export_triples_to_neo4j and query_neo4j_knowledge_graph, against a      *)
(* database whose operations may raise.  The neo4j package is present: an  *)
(* integration object exists.                                              *)
(***************************************************************************)
\* The operations that reach the database: GraphDatabase.driver(), the test
\* query of connect(), the deletes of clear_database(), the session() and the
\* statements of create_constraints_and_indexes(), _import_entities(),
\* _import_relationships() and _store_metadata(), and the session and the
\* statement of query_neo4j_knowledge_graph.
NeoOperations ==
    {"driver", "test", "clear", "session", "constraint",
     "entities", "relationships", "metadata", "query"}

\* What a failing operation raises.
NeoKinds == {"Exception", "KeyboardInterrupt"}

\* except Exception
NeoCaught(kind) == kind = "Exception"

\* The operations import_knowledge_graph attempts, in order.
ImportSteps(clear, st) ==
    (IF clear THEN <<"clear">> ELSE <<>>)
    \o <<"session", "constraint", "entities", "relationships">>
    \o (IF st = "given" THEN <<"metadata">> ELSE <<>>)

\* The operations whose Exception is caught where it is raised and does not
\* end the import: clear_database() catches it and returns False, a value
\* import_knowledge_graph does not look at; create_constraints_and_indexes()
\* logs a warning for a statement that fails.
SwallowedSteps == {"clear", "constraint"}

\* The try block of import_knowledge_graph from the given step on.
RECURSIVE RunSteps(_, _, _, _)
RunSteps(steps, failing, kind, done) ==
    IF steps = <<>> THEN [result |-> "True", done |-> done]
    ELSE IF Head(steps) \notin failing
         THEN RunSteps(Tail(steps), failing, kind, Append(done, Head(steps)))
    ELSE IF ~NeoCaught(kind) THEN [result |-> "raised", done |-> done]
    ELSE IF Head(steps) \in SwallowedSteps
         THEN RunSteps(Tail(steps), failing, kind, done)
    ELSE [result |-> "False", done |-> done]

\* close() leaves self.driver assigned, so a closed driver is used like an
\* open one; whether that raises is up to the neo4j package.
Unusable(d) == d = "closed" /\ neoClosedUse = "raises"

\* import_knowledge_graph(triples, stats, clear_first) on an integration
\* whose driver is d.
ImportKnowledgeGraph(d, failing, kind, clear, st) ==
    IF d = "none" THEN [result |-> "False", done |-> <<>>]
    ELSE RunSteps(ImportSteps(clear, st),
                  IF Unusable(d) THEN NeoOperations ELSE failing,
                  IF Unusable(d) THEN "Exception" ELSE kind, <<>>)

\* connect() on an integration whose driver is d: the driver is assigned
\* before the test query runs, and stays assigned when that query fails.
Connect(d, failing, kind) ==
    IF "driver" \in failing
    THEN [result |-> IF NeoCaught(kind) THEN "False" ELSE "raised", driver |-> d]
    ELSE IF "test" \in failing
    THEN [result |-> IF NeoCaught(kind) THEN "False" ELSE "raised", driver |-> "open"]
    ELSE [result |-> "True", driver |-> "open"]

\* close(): if self.driver: self.driver.close()
Close(d) == IF d = "none" THEN "none" ELSE "closed"

\* export_triples_to_neo4j: connect, return False when that fails, otherwise
\* import inside try and close inside finally.
ExportTriplesToNeo4j(failing, kind, clear, st) ==
    LET connected == Connect("none", failing, kind)
        imported == ImportKnowledgeGraph(connected.driver, failing, kind, clear, st)
    IN  IF connected.result # "True"
        THEN [result |-> connected.result, driver |-> connected.driver, done |-> <<>>]
        ELSE [result |-> imported.result, driver |-> Close(connected.driver),
              done |-> imported.done]

\* query_neo4j_knowledge_graph: connect, return [] when that fails,
\* otherwise run the query inside try, return [] for an Exception, and close
\* inside finally.
QueryNeo4jKnowledgeGraph(failing, kind) ==
    LET connected == Connect("none", failing, kind)
    IN  IF connected.result # "True"
        THEN [result |-> IF connected.result = "False" THEN "[]" ELSE "raised",
              driver |-> connected.driver]
        ELSE [result |-> IF "query" \notin failing THEN "records"
                         ELSE IF NeoCaught(kind) THEN "[]" ELSE "raised",
              driver |-> Close(connected.driver)]

NeoInit ==
    /\ neoFails \in SUBSET NeoOperations
    /\ neoKind \in NeoKinds
    /\ neoClosedUse \in {"raises", "works"}
    /\ clear_first \in BOOLEAN
    /\ stats \in {"None", "empty", "given"}
    /\ driver = "none"
    /\ neoOp = "none"
    /\ neoDone = <<>>
    /\ neoResult = "none"

\* The calls that make an integration of their own; the calls on the
\* integration object do not follow them.
OwnIntegration == {"export_triples_to_neo4j", "query_neo4j_knowledge_graph"}

\* integration.connect()
CallConnect ==
    /\ neoOp \notin OwnIntegration
    /\ LET r == Connect(driver, neoFails, neoKind)
       IN  /\ driver' = r.driver
           /\ neoResult' = r.result
    /\ neoOp' = "connect"
    /\ UNCHANGED <<neoFails, neoKind, neoClosedUse, clear_first, stats, neoDone>>

\* integration.import_knowledge_graph(triples, stats, clear_first)
CallImport ==
    /\ neoOp \notin OwnIntegration
    /\ LET r == ImportKnowledgeGraph(driver, neoFails, neoKind, clear_first, stats)
       IN  /\ neoResult' = r.result
           /\ neoDone' = r.done
    /\ neoOp' = "import_knowledge_graph"
    /\ UNCHANGED <<neoFails, neoKind, neoClosedUse, clear_first, stats, driver>>

\* integration.close()
CallClose ==
    /\ neoOp \notin OwnIntegration
    /\ driver' = Close(driver)
    /\ neoOp' = "close"
    /\ neoResult' = "None"
    /\ UNCHANGED <<neoFails, neoKind, neoClosedUse, clear_first, stats, neoDone>>

\* export_triples_to_neo4j(triples, config_dict, stats, clear_first), which
\* makes an integration of its own.
CallExportTriplesToNeo4j ==
    /\ neoOp = "none"
    /\ LET r == ExportTriplesToNeo4j(neoFails, neoKind, clear_first, stats)
       IN  /\ driver' = r.driver
           /\ neoResult' = r.result
           /\ neoDone' = r.done
    /\ neoOp' = "export_triples_to_neo4j"
    /\ UNCHANGED <<neoFails, neoKind, neoClosedUse, clear_first, stats>>

\* query_neo4j_knowledge_graph(query, config_dict, parameters), which makes
\* an integration of its own.
CallQueryNeo4jKnowledgeGraph ==
    /\ neoOp = "none"
    /\ LET r == QueryNeo4jKnowledgeGraph(neoFails, neoKind)
       IN  /\ driver' = r.driver
           /\ neoResult' = r.result
    /\ neoOp' = "query_neo4j_knowledge_graph"
    /\ UNCHANGED <<neoFails, neoKind, neoClosedUse, clear_first, stats, neoDone>>

NeoNext ==
    \/ CallConnect \/ CallImport \/ CallClose
    \/ CallExportTriplesToNeo4j \/ CallQueryNeo4jKnowledgeGraph

(***************************************************************************)
(* Specifications.                                                         *)
(***************************************************************************)
SerIdle ==
    /\ serParts = <<>> /\ serForm = "none" /\ serCut = 0
    /\ text = <<>> /\ serOut = NotRun /\ serFrames = 1

GfIdle ==
    /\ triples = <<>> /\ entity = "" /\ max_hops = 0 /\ gfOut = NotRun

FltIdle == gfOp = "none" /\ gfArg = NoArg

MfeIdle ==
    /\ formats = <<>> /\ exportFails = [f \in KnownFormats |-> "none"]
    /\ exportPos = 0 /\ exportResults = EmptyExportResults
    /\ exportPc = "idle"

PaIdle ==
    /\ batchResults = [p \in Paths |-> AbsentRecord]
    /\ analysis = NotRun

ExpIdle == expTriples = <<>> /\ expOut = NotRun

NeoIdle ==
    /\ neoFails = {} /\ neoKind = "Exception" /\ neoClosedUse = "raises"
    /\ clear_first = FALSE
    /\ stats = "None" /\ driver = "none" /\ neoOp = "idle"
    /\ neoDone = <<>> /\ neoResult = "none"

BfsIdle == bfsQueue = <<>> /\ bfsVisited = {}

PsfIdle == psfPath = "" /\ psfOutcome = "ok" /\ psfRecord = NotRun

BatchIdle ==
    /\ api = "file_list" /\ files = <<>> /\ max_workers = 1
    /\ outcome = <<>> /\ task = <<>> /\ future = <<>>
    /\ collected = {} /\ firstCollected = 0 /\ results = EmptyResults
    /\ pc = "idle" /\ summary = NoSummary

\* The batch run.
Init == BatchInit /\ SerIdle /\ GfIdle /\ FltIdle /\ MfeIdle /\ PaIdle
    /\ ExpIdle /\ NeoIdle /\ BfsIdle /\ PsfIdle
Next == BatchNext
    /\ UNCHANGED <<serVars, gfVars, fltVars, mfeVars, paVars, expVars,
                 neoVars, bfsVars, psfVars>>
Spec == Init /\ [][Next]_vars

\* What the batch run leaves alone.
OthersUnchanged ==
    UNCHANGED <<serVars,
                gfVars,
                fltVars,
                mfeVars,
                paVars,
                expVars,
                neoVars,
                bfsVars,
                psfVars>>

\* The scheduling of the batch run: the calling thread goes through its
\* submit loop, its as_completed loop and its summary without stopping; a
\* free pool worker takes the oldest queued task; and every pipeline run
\* terminates, by returning or by raising.
Fairness ==
    /\ \A i \in 1..MaxFiles :
         WF_vars(i \in Submissions /\ Submit(i) /\ OthersUnchanged)
    /\ \A i \in 1..MaxFiles :
         WF_vars(i \in Submissions /\ WorkerStart(i) /\ OthersUnchanged)
    /\ \A i \in 1..MaxFiles :
         WF_vars(i \in Submissions /\ WorkerFinish(i) /\ OthersUnchanged)
    /\ \A i \in 1..MaxFiles :
         WF_vars(i \in Submissions /\ Collect(i) /\ OthersUnchanged)
    /\ WF_vars(Reraise /\ OthersUnchanged)
    /\ WF_vars(Summarize /\ OthersUnchanged)
    /\ WF_vars(NoFiles /\ OthersUnchanged)

\* The batch run under that scheduling.
InitLive == LiveInit /\ SerIdle /\ GfIdle /\ FltIdle /\ MfeIdle /\ PaIdle
    /\ ExpIdle /\ NeoIdle /\ BfsIdle /\ PsfIdle
NextLive == BatchNext /\ OthersUnchanged
SpecLive == InitLive /\ [][NextLive]_vars /\ Fairness

\* extract_json_from_text applied to bounded inputs.
InitSER == SerInit /\ BatchIdle /\ GfIdle /\ FltIdle /\ MfeIdle /\ PaIdle
    /\ ExpIdle /\ NeoIdle /\ BfsIdle /\ PsfIdle
NextSER == SerNext
    /\ UNCHANGED <<batchVars, gfVars, fltVars, mfeVars, paVars, expVars,
                 neoVars, bfsVars, psfVars>>
SpecSER == InitSER /\ [][NextSER]_vars

\* get_subgraph_around_entity applied to bounded inputs.
InitGFE == GfInit /\ BatchIdle /\ SerIdle /\ FltIdle /\ MfeIdle /\ PaIdle
    /\ ExpIdle /\ NeoIdle /\ BfsIdle /\ PsfIdle
NextGFE == GfNext
    /\ UNCHANGED <<batchVars, serVars, fltVars, mfeVars, paVars, expVars,
                 neoVars, bfsVars, psfVars>>
SpecGFE == InitGFE /\ [][NextGFE]_vars

\* The GraphFilter operations called with chosen arguments.
InitFLT == FltInit /\ BatchIdle /\ SerIdle /\ MfeIdle /\ PaIdle /\ ExpIdle
    /\ NeoIdle /\ BfsIdle /\ PsfIdle
NextFLT == FltNext
    /\ UNCHANGED <<batchVars, serVars, mfeVars, paVars, expVars, neoVars,
                 bfsVars, psfVars>>
SpecFLT == InitFLT /\ [][NextFLT]_vars

\* export_multiple_formats.
InitMFE == MfeInit /\ BatchIdle /\ SerIdle /\ GfIdle /\ FltIdle /\ PaIdle
    /\ ExpIdle /\ NeoIdle /\ BfsIdle /\ PsfIdle
NextMFE == MfeNext
    /\ UNCHANGED <<batchVars, serVars, gfVars, fltVars, paVars, expVars,
                 neoVars, bfsVars, psfVars>>
SpecMFE == InitMFE /\ [][NextMFE]_vars

\* analyze_batch_results applied to bounded inputs.
InitPA == PaInit /\ BatchIdle /\ SerIdle /\ GfIdle /\ FltIdle /\ MfeIdle
    /\ ExpIdle /\ NeoIdle /\ BfsIdle /\ PsfIdle
NextPA == PaNext
    /\ UNCHANGED <<batchVars, serVars, gfVars, fltVars, mfeVars, expVars,
                 neoVars, bfsVars, psfVars>>
SpecPA == InitPA /\ [][NextPA]_vars

\* The turtle, graphml and gexf exporters applied to bounded inputs.
InitEXP == ExpInit /\ BatchIdle /\ SerIdle /\ GfIdle /\ FltIdle /\ MfeIdle
    /\ PaIdle /\ NeoIdle /\ BfsIdle /\ PsfIdle
NextEXP == ExpNext
    /\ UNCHANGED <<batchVars, serVars, gfVars, fltVars, mfeVars, paVars,
                 neoVars, bfsVars, psfVars>>
SpecEXP == InitEXP /\ [][NextEXP]_vars

\* Neo4jIntegration and export_triples_to_neo4j.
InitNEO == NeoInit /\ BatchIdle /\ SerIdle /\ GfIdle /\ FltIdle /\ MfeIdle
    /\ PaIdle /\ ExpIdle /\ BfsIdle /\ PsfIdle
NextNEO == NeoNext
    /\ UNCHANGED <<batchVars, serVars, gfVars, fltVars, mfeVars, paVars,
                 expVars, bfsVars, psfVars>>
SpecNEO == InitNEO /\ [][NextNEO]_vars

\* The traversal of get_subgraph_around_entity, step by step.
InitBFS == BfsInit /\ BatchIdle /\ SerIdle /\ FltIdle /\ MfeIdle /\ PaIdle
    /\ ExpIdle /\ NeoIdle /\ PsfIdle
NextBFS == BfsNext
    /\ UNCHANGED <<batchVars, serVars, fltVars, mfeVars, paVars, expVars,
                 neoVars, psfVars>>
SpecBFS == InitBFS /\ [][NextBFS]_vars

\* _process_single_file with its exports.
InitPSF == PsfInit /\ BatchIdle /\ SerIdle /\ GfIdle /\ FltIdle /\ PaIdle
    /\ ExpIdle /\ NeoIdle /\ BfsIdle
NextPSF == PsfNext
    /\ UNCHANGED <<batchVars, serVars, gfVars, fltVars, paVars, expVars,
                 neoVars, bfsVars>>
SpecPSF == InitPSF /\ [][NextPSF]_vars

\* apply_filtering called with chosen options.
InitAF == AfInit /\ BatchIdle /\ SerIdle /\ MfeIdle /\ PaIdle /\ ExpIdle
    /\ NeoIdle /\ BfsIdle /\ PsfIdle
NextAF == AfNext
    /\ UNCHANGED <<batchVars, serVars, mfeVars, paVars, expVars, neoVars,
                 bfsVars, psfVars>>
SpecAF == InitAF /\ [][NextAF]_vars


(***************************************************************************)
(* Claims about the batch run (checked under Spec).                        *)
(***************************************************************************)
\* The batch names each document once: no path is submitted twice.
DistinctDocuments == \A i, j \in Submissions : files[i] = files[j] => i = j

\* M: the documents whose pipeline run fails.
FailedDocuments == {i \in Submissions : outcome[i] # "ok"}

Completed == pc = "done" /\ summary.status = "completed"

\* The outcomes whose exception leaves the as_completed loop.
EscapingOutcomes == {"raises_base", "raises_unprintable_twice"}

\* No document of the batch meets such an outcome.
NoneEscapes == \A i \in Submissions : outcome[i] \notin EscapingOutcomes

\* The batch call is over: it has returned or it has raised.
CallOver == pc \in {"done", "raised"}

\* C8: a batch of N documents (each path submitted once) of which M fail is
\* reported with successful = N - M and failed = M, by process_directory
\* and by process_file_list, whatever the worker limit and whatever the
\* order in which the documents complete and are collected: the call, once
\* over, has returned a summary with these counts.
C8_CountsMatchOutcomes ==
    (CallOver /\ DistinctDocuments /\ Len(files) > 0) =>
        /\ Completed
        /\ summary.successful = Len(files) - Cardinality(FailedDocuments)
        /\ summary.failed = Cardinality(FailedDocuments)

\* Whenever a summary is returned, its counts are those of C8.
C8_CountsWhenReturned ==
    (Completed /\ DistinctDocuments) =>
        /\ summary.successful = Len(files) - Cardinality(FailedDocuments)
        /\ summary.failed = Cardinality(FailedDocuments)

\* C9: a failing document (unreadable, empty, no triples, exception) gets an
\* error record with an error message under its own path; every other
\* document's record is the one its own path and outcome give, and a path
\* that was not submitted gets no record; once every document is collected
\* the call returns a completed summary instead of raising.
C9_FailureIsolated ==
    /\ pc \notin {"unwinding", "raised"}
    /\ DistinctDocuments =>
         \A i \in collected :
            /\ outcome[i] # "ok" =>
                 /\ results[files[i]].status = "error"
                 /\ results[files[i]].error # ""
            /\ outcome[i] = "ok" =>
                 results[files[i]] = SuccessRecord(files[i], TriplesOf(files[i]))
    /\ \A p \in Paths : (p \notin Range(files)) => results[p] = NoRecord
    /\ (AllSubmitted /\ collected = Submissions /\ Len(files) > 0) =>
         \/ ENABLED Summarize
         \/ Completed /\ summary.results = results

\* Apart from a pipeline exception that leaves the loop (one outside the
\* Exception class, or one that str() fails on twice), C9 holds.
C9_IsolatedUnlessBaseException ==
    NoneEscapes => C9_FailureIsolated

\* C10: at most max_workers documents are running at any time; every other
\* submitted document is queued or terminal.
C10_BoundedInFlight ==
    /\ Cardinality(Running) <= max_workers
    /\ \A i \in Submissions :
         task[i] \in {"unsubmitted", "queued", "running", "finished"}
    /\ \A i \in Submissions : (i \in collected) => task[i] = "finished"

\* C10 witness: the pool is full and a submitted document waits in the queue.
C10_Witness ==
    /\ Cardinality(Running) = max_workers
    /\ Queued # {}

\* Each document meets one outcome: a path that is submitted twice meets the
\* same outcome both times.
OutcomeByDocument ==
    \A i, j \in Submissions : files[i] = files[j] => outcome[i] = outcome[j]

\* The outcome of a document: that of the first submission of its path.
DocumentOutcome(p) ==
    outcome[CHOOSE i \in Submissions :
                files[i] = p /\ \A j \in 1..(i-1) : files[j] # p]

\* The record a document's path and outcome determine.
RecordOf(p, o) ==
    CASE o = "ok"         -> [status |-> "success", error |-> "", input_file |-> p,
                              triples_extracted |-> TriplesOf(p), timed |-> TRUE]
      [] o = "unreadable" -> [status |-> "error", error |-> "cannot open", input_file |-> "",
                              triples_extracted |-> 0, timed |-> TRUE]
      [] o = "empty"      -> [status |-> "error", error |-> "Empty file", input_file |-> "",
                              triples_extracted |-> 0, timed |-> FALSE]
      [] o = "raises"     -> [status |-> "error", error |-> "pipeline error", input_file |-> "",
                              triples_extracted |-> 0, timed |-> TRUE]
      [] o = "raises_unprintable" ->
                             [status |-> "error", error |-> "future raised", input_file |-> "",
                              triples_extracted |-> 0, timed |-> FALSE]
      [] o = "unhashable" -> [status |-> "error", error |-> "unhashable type", input_file |-> "",
                              triples_extracted |-> 0, timed |-> TRUE]
      [] o \in EscapingOutcomes -> NoRecord
      [] OTHER            -> [status |-> "error", error |-> "No triples extracted",
                              input_file |-> "", triples_extracted |-> 0, timed |-> FALSE]

SucceededDocuments == {p \in Range(files) : DocumentOutcome(p) = "ok"}

\* The summary the entry point, the submitted paths and the outcomes of the
\* submissions determine.
DeterminedSummary ==
    /\ summary.total_files = Len(files)
    /\ summary.successful = Cardinality(SucceededDocuments)
    /\ summary.failed =
           (IF api = "directory" THEN Cardinality(Range(files)) ELSE Len(files))
           - Cardinality(SucceededDocuments)
    /\ \A p \in Paths :
           summary.results[p] =
               IF p \in Range(files) THEN RecordOf(p, DocumentOutcome(p))
               ELSE NoRecord

\* C11: the summary of a completed batch is determined by the entry point,
\* the submitted paths and the outcome of each submission: total_files,
\* successful, failed and the record under every document key are the same
\* whatever the worker limit and whatever the order in which the documents
\* complete and are collected; so is whether the call returns a summary at
\* all.
C11_OrderIndependent ==
    /\ CallOver => (pc = "raised" <=> ~NoneEscapes)
    /\ Completed => DeterminedSummary

\* When every path meets the same outcome each time it is submitted, the
\* summary and the records collected so far are determined in this way at
\* every point of the run.
C11_IndependentWhenOutcomeByDocument ==
    OutcomeByDocument =>
        /\ \A i \in collected : results[files[i]] = RecordOf(files[i], outcome[i])
        /\ C11_OrderIndependent

\* A path is submitted twice, its first run yields triples and its second
\* none.
SamePathTwoOutcomes ==
    /\ Completed /\ api = "file_list" /\ max_workers = 2
    /\ files = <<"a.txt", "a.txt">>
    /\ outcome[1] = "ok" /\ outcome[2] = "no_triples"

\* Two ends of such a batch, both reachable: the success record was
\* collected last and is the one the summary holds, or the error record was.
SuccessCollectedLast ==
    SamePathTwoOutcomes /\ firstCollected = 2 /\ summary.successful = 1

ErrorCollectedLast ==
    SamePathTwoOutcomes /\ firstCollected = 1 /\ summary.successful = 0

\* Every submitted document has a terminal record and none is in flight.
AllTerminal ==
    /\ \A i \in Submissions :
         /\ task[i] = "finished" /\ i \in collected
         /\ results[files[i]].status \in {"success", "error"}
    /\ Running = {} /\ Queued = {}

\* C12: the summary is built, and batch_summary.json written, only when
\* every submitted document has a terminal record (success or error) and no
\* document is queued or running; the summary holds those records, and once
\* it is built no record, no task and not the summary itself changes.
C12_SummaryAfterTerminal ==
    /\ [](summary.status = "completed" =>
            /\ AllTerminal
            /\ summary.results = results
            /\ summary.written => api = "directory")
    /\ [][summary.status = "completed" =>
            /\ results' = results /\ task' = task
            /\ collected' = collected /\ summary' = summary]_vars

\* C12 witness: process_directory has written the summary of two documents,
\* one of them failed.
C12_Witness ==
    /\ Completed /\ summary.written /\ api = "directory"
    /\ Len(files) = 2 /\ files[1] # files[2]
    /\ results[files[1]].status = "success" /\ results[files[2]].status = "error"
    /\ AllTerminal

\* The documents whose run has reached its exports: they yield triples and
\* a worker has taken them.
ExportingDocuments ==
    {i \in Submissions : outcome[i] \in YieldsTriples /\ task[i] \in {"running", "finished"}}

\* The files the exports of document i write: export_to_json computes its
\* statistics before it opens the file, so it writes none when a triple is
\* unhashable.
WrittenFiles(i) ==
    IF outcome[i] = "unhashable"
    THEN OutputFiles(files[i]) \ {<<Stem(files[i]), "json">>}
    ELSE OutputFiles(files[i])

\* C19: in a batch of distinct documents each document's result slot is
\* written at most once during the run and exactly once when the batch has
\* completed, and no two documents write to the same output file.
C19_NoSharedState ==
    DistinctDocuments =>
        /\ \A p \in Paths : Cardinality({i \in collected : files[i] = p}) <= 1
        /\ Completed =>
             \A i \in Submissions : Cardinality({j \in collected : files[j] = files[i]}) = 1
        /\ \A i, j \in ExportingDocuments :
             i # j => WrittenFiles(i) \cap WrittenFiles(j) = {}

\* A submitted document has reached its terminal record: its run is over, the
\* loop has collected it, and the results map holds a success or an error
\* record under its path.
HasTerminalRecord(i) ==
    /\ task[i] = "finished" /\ future[i] # Pending
    /\ i \in collected
    /\ results[files[i]].status \in {"success", "error"}

\* C25: if every document's pipeline run terminates, every submitted
\* document moves queued -> running -> one terminal record that never changes
\* afterwards, the batch call eventually returns its summary, and no
\* submitted document is cancelled or left without a record.
C25_EveryDocumentFinishes ==
    /\ <>(pc = "done")
    /\ \A i \in 1..MaxFiles :
         /\ (i \in Submissions /\ task[i] = "queued")
               ~> (i \in Submissions /\ task[i] = "running")
         /\ (i \in Submissions /\ task[i] = "running")
               ~> (i \in Submissions /\ HasTerminalRecord(i))
    /\ [](Completed => \A i \in Submissions : HasTerminalRecord(i))
    /\ [][\A i \in Submissions :
            /\ task'[i] # task[i] =>
                 <<task[i], task'[i]>> \in {<<"unsubmitted", "queued">>,
                                            <<"queued", "running">>,
                                            <<"running", "finished">>}
            /\ future[i] # Pending => future'[i] = future[i]
            /\ i \in collected => i \in collected']_vars

\* Apart from a pipeline exception that leaves the loop, the call returns
\* and every submission has its terminal record.
C25_FinishesUnlessBaseException ==
    NoneEscapes =>
        /\ pc \notin {"unwinding", "raised"}
        /\ Completed => \A i \in Submissions : HasTerminalRecord(i)

\* Under the fair scheduling, a batch without such an exception returns.
C25_ReturnsUnlessBaseException ==
    NoneEscapes ~> (pc = "done")

\* C27: in every summary returned by process_directory and by
\* process_file_list, successful + failed = total_files and the results map
\* has exactly total_files entries, also when the same path is submitted more
\* than once.
C27_CountsAddUp ==
    Completed =>
        /\ summary.successful + summary.failed = summary.total_files
        /\ Cardinality(Keys(summary.results)) = summary.total_files


(***************************************************************************)
(* Claims about get_subgraph_around_entity (checked under SpecGFE).        *)
(***************************************************************************)
ScenarioTriples ==
    << Triple("A", "p", "B", FALSE, 0, 10), Triple("B", "q", "C", TRUE, 0, 6) >>

\* C1: on the two-triple scenario with center "A", one hop returns exactly
\* the first triple and two hops return both triples in input order.
C1_Scenario ==
    (gfOut # NotRun /\ triples = ScenarioTriples /\ entity = "A") =>
        /\ max_hops = 1 => gfOut.val = <<ScenarioTriples[1]>>
        /\ max_hops = 2 => gfOut.val = ScenarioTriples

\* The entities of a triple list, and the undirected connected component of
\* an entity, both under the names as written.
Entities(ts) == {ts[i].subject : i \in 1..Len(ts)} \cup {ts[i].object : i \in 1..Len(ts)}

RECURSIVE Component(_, _)
Component(ts, S) ==
    LET N == S \cup UNION {Adjacency(ts, n) : n \in S}
    IN  IF N = S THEN S ELSE Component(ts, N)

ComponentTriples(ts, c) ==
    LET comp == Component(ts, {c})
        keep(t) == t.subject \in comp /\ t.object \in comp
    IN  SelectSeq(ts, keep)

\* C2: when the center occurs in some triple and max_hops is at least the
\* number of distinct entities, the result is exactly the input triples
\* whose subject and object lie in the center's connected component, in
\* input order.
C2_FullComponent ==
    (gfOut # NotRun /\ entity \in Entities(triples)
        /\ max_hops >= Cardinality(Entities(triples))) =>
        gfOut.val = ComponentTriples(triples, entity)

\* The entities at undirected distance at most h from the entities of S,
\* over all triples of ts.
RECURSIVE WithinHops(_, _, _)
WithinHops(ts, S, h) ==
    IF h = 0 THEN S
    ELSE WithinHops(ts, S \cup UNION {Adjacency(ts, n) : n \in S}, h - 1)

\* The visited set is the set of entities within max_hops of the lower-cased
\* center.
VisitedWithinHops ==
    gfOut # NotRun =>
        EntitiesInSubgraph(triples, entity, max_hops)
            = {WithinHops(triples, {Lower(entity)}, max_hops)}

\* C15: the visited set is exactly the set of entities whose undirected
\* distance from the lower-cased center, over all input triples, is at most
\* max_hops, and the result is exactly the input triples whose subject and
\* object are both in that set, in input order.
C15_BoundedNeighbourhood ==
    gfOut # NotRun =>
        LET reach == WithinHops(triples, {Lower(entity)}, max_hops)
            both(t) == t.subject \in reach /\ t.object \in reach
        IN  /\ EntitiesInSubgraph(triples, entity, max_hops) = {reach}
            /\ gfOut.val = SelectSeq(triples, both)

\* C16: with max_hops = 0 every returned triple is a self-loop on the center
\* (subject and object both equal the center, ignoring case), and when the
\* input holds no such self-loop the result is empty.
C16_ZeroHops ==
    (gfOut # NotRun /\ max_hops = 0) =>
        /\ \A k \in 1..Len(gfOut.val) :
             /\ Lower(gfOut.val[k].subject) = Lower(entity)
             /\ Lower(gfOut.val[k].object) = Lower(entity)
        /\ (\A i \in 1..Len(triples) :
               ~(Lower(triples[i].subject) = Lower(entity)
                 /\ Lower(triples[i].object) = Lower(entity)))
             => gfOut.val = <<>>

\* C16 witness: zero hops around "C" in a list that holds the self-loop on
\* "c" and a triple between "b" and "c": only the self-loop is returned.
C16_Witness ==
    /\ gfOut # NotRun /\ max_hops = 0 /\ entity = "C"
    /\ triples = << Triple("b", "q", "c", TRUE, 1, 6), Triple("c", "p", "c", FALSE, 1, 3) >>
    /\ gfOut.val = << Triple("c", "p", "c", FALSE, 1, 3) >>


(***************************************************************************)
(* Claims about the traversal taken step by step (checked under SpecBFS).  *)
(***************************************************************************)
\* C28: the result of get_subgraph_around_entity does not depend on the
\* order in which a visited entity's neighbours are taken from its adjacency
\* set: whatever the orders, the run ends (each turn of the loop visits a new
\* entity of the input or shortens the queue) with the visited set equal to
\* the entities within max_hops of the lower-cased center and with the
\* triples whose lower-cased subject and object are both in that set, in
\* input order; the operator GetSubgraphAroundEntity, which takes every
\* order, gives that list and no other.
C28_OrderIndependent ==
    /\ [](gfOut # NotRun =>
            LET reach == WithinHops(triples, {Lower(entity)}, max_hops)
                both(t) == Lower(t.subject) \in reach /\ Lower(t.object) \in reach
            IN  /\ bfsVisited = reach
                /\ gfOut.val = SelectSeq(triples, both)
                /\ GetSubgraphAroundEntity(triples, entity, max_hops) = {gfOut.val})
    /\ [](bfsVisited \subseteq Entities(triples) \cup {Lower(entity)})
    /\ [][\/ bfsVisited \subseteq bfsVisited' /\ bfsVisited' # bfsVisited
          \/ bfsVisited' = bfsVisited /\ Len(bfsQueue') < Len(bfsQueue)
          \/ gfOut = NotRun /\ gfOut' # NotRun /\ bfsQueue = <<>>]_vars

\* C28 witness: around "a" with two hops in the cycle a, b, c, where both
\* neighbours of "a" were queued at distance 1 and each was queued again at
\* distance 2 by the other: all three are visited, all triples returned.
C28_Witness ==
    /\ gfOut # NotRun /\ entity = "a" /\ max_hops = 2
    /\ triples = << Triple("a", "p", "b", FALSE, 0, 10), Triple("b", "q", "c", TRUE, 1, 6),
                    Triple("a", "q", "c", FALSE, 1, 8) >>
    /\ bfsVisited = {"a", "b", "c"}
    /\ gfOut.val = triples


(***************************************************************************)
(* Claims about extract_json_from_text (checked under SpecSER).            *)
(***************************************************************************)
\* The values of the first n objects the input was built from.
FirstValues(n) == Arr([i \in 1..n |-> PartValue(serParts[i])])

\* The number of objects that are complete before the cut.
CompleteBeforeCut ==
    Cardinality({m \in 1..Len(serParts) : ObjClose(serParts, m) <= serCut})

\* C3: for a valid array of objects cut inside one of its objects, the call
\* returns the list of exactly the objects that were complete before the
\* cut, in order; it returns neither None nor a part of the dangling one.
C3_TruncatedRecovery ==
    (serForm = "cut" /\ serOut # NotRun) =>
        serOut = Value(FirstValues(CompleteBeforeCut))

\* C4: for a valid JSON array, bare or wrapped in one fenced code block, the
\* call returns exactly the array the JSON denotes.
C4_ValidArrayParsed ==
    (serForm \in {"bare", "fenced"} /\ serOut # NotRun) =>
        serOut = Value(FirstValues(Len(serParts)))

\* C5: the call never raises, whatever the input; when nothing can be
\* parsed it returns None.
C5_NeverRaises == serOut.kind # "raise"

\* C6: a returned value other than None is an array of records, never a
\* bare object, string or number.
C6_ArrayOrNone ==
    serOut.kind = "value" =>
        /\ serOut.val.k = "arr"
        /\ \A i \in 1..Len(serOut.val.v) : serOut.val.v[i].k = "obj"

\* C7: for an array that differs from valid JSON only by bare object keys
\* and trailing commas, the call returns the array obtained by quoting the
\* keys and deleting the commas, every value unchanged.
C7_RepairsKeepValues ==
    (serForm = "sloppy" /\ serOut # NotRun) =>
        serOut = Value(FirstValues(Len(serParts)))


(***************************************************************************)
(* Claims about export_multiple_formats (checked under SpecMFE).           *)
(***************************************************************************)
\* Every requested format is one of json, csv, graphml, gexf, turtle.
RequestedKnown == Range(formats) \subseteq KnownFormats

\* C13: for a list of formats drawn from the five known names the call
\* never raises; every format the loop has reached has an entry whose status
\* is error when its own exporter failed and success when it did not,
\* whatever happened to the other formats; a format that was not requested
\* has no entry; the loop goes on to the end of the list and returns.
C13_FormatsIsolated ==
    RequestedKnown =>
        /\ exportPc # "raised"
        /\ \A k \in 1..exportPos :
             exportResults[formats[k]].status =
                IF exportFails[formats[k]] = "none" THEN "success" ELSE "error"
        /\ \A f \in FormatNames \ {formats[k] : k \in 1..exportPos} :
             exportResults[f] = NoEntry
        /\ exportPc = "returned" => exportPos = Len(formats)

\* C13 witness: json and csv were requested, the json export failed; the
\* call has returned an error entry for json and a success entry for csv.
C13_Witness ==
    /\ exportPc = "returned" /\ formats = <<"json", "csv">>
    /\ exportFails["json"] = "TypeError" /\ exportFails["csv"] = "none"
    /\ exportResults["json"].status = "error"
    /\ exportResults["csv"] = SuccessEntry("csv")


(***************************************************************************)
(* Claims about _process_single_file with its exports (checked under       *)
(* SpecPSF).                                                               *)
(***************************************************************************)
\* C29: a document whose text is non-empty and yields at least one triple is
\* recorded with status success whatever its exports do: the record carries
\* no error, a failed export shows as an error entry inside the exports map,
\* a skipped format (html, which has no exporter) has no entry there, and
\* the other formats have a success entry.
C29_ExportsDoNotFailDocument ==
    (psfRecord # NotRun /\ psfOutcome \in YieldsTriples) =>
        LET r == psfRecord.val
        IN  /\ ~r.raised
            /\ r.record.status = "success" /\ r.record.error = ""
            /\ r.record.triples_extracted >= 1
            /\ \A k \in 1..Len(BatchFormats) :
                 LET f == BatchFormats[k]
                 IN  r.exports[f].status =
                        IF f \notin KnownFormats THEN "none"
                        ELSE IF exportFails[f] = "none" THEN "success"
                        ELSE "error"

\* When every triple's subject, predicate and object is hashable, C29 holds.
C29_ExportsDoNotFailHashable ==
    psfOutcome = "ok" => C29_ExportsDoNotFailDocument

\* A document whose json export fails with an OSError and whose csv export
\* succeeds is a success whose exports map shows both.
C29_HashableCase ==
    /\ psfRecord # NotRun /\ psfOutcome = "ok"
    /\ exportFails["json"] = "OSError" /\ exportFails["csv"] = "none"
    /\ psfRecord.val.record.status = "success"
    /\ psfRecord.val.exports["json"].status = "error"
    /\ psfRecord.val.exports["csv"].status = "success"
    /\ psfRecord.val.exports["html"].status = "none"


(***************************************************************************)
(* Claims about the GraphFilter operations (checked under SpecFLT).        *)
(***************************************************************************)
\* The triple's subject or object equals some listed entity, ignoring case.
MatchesEntity(t, entities) ==
    \E k \in 1..Len(entities) :
        \/ Lower(t.subject) = Lower(entities[k])
        \/ Lower(t.object) = Lower(entities[k])

\* The positions of the input list whose triple the entity filter is to keep.
EntityKept(ts, entities, include_mode) ==
    {i \in 1..Len(ts) : MatchesEntity(ts[i], entities) <=> include_mode}

\* C14: filter_by_entities with include_mode true returns only triples whose
\* subject or object equals a listed entity ignoring case, with include_mode
\* false only triples of which neither does; in both modes every input
\* triple that satisfies the condition is returned, once for each of its
\* occurrences.
C14_EntityFilter ==
    gfOp = "entities" =>
        LET out == gfOut.val
            kept == EntityKept(triples, gfArg.entities, gfArg.include_mode)
        IN  /\ \A k \in 1..Len(out) :
                 MatchesEntity(out[k], gfArg.entities) <=> gfArg.include_mode
            /\ \A i \in kept : triples[i] \in Range(out)
            /\ Len(out) = Cardinality(kept)

\* C14 witness: the list names "B" and "z"; a triple whose object is "b" is
\* kept and a triple that names neither is dropped.
C14_Witness ==
    /\ gfOp = "entities" /\ gfArg.entities = <<"B", "z">> /\ gfArg.include_mode
    /\ Len(triples) = 3
    /\ triples[1] = Triple("a", "p", "b", FALSE, 0, 10)
    /\ triples[2] = Triple("c", "p", "c", FALSE, 1, 3)
    /\ gfOut.val = <<triples[1], triples[3]>>

\* The confidence of a triple; a triple without the key counts as 1.0.
ConfidenceOf(t) == IF "confidence" \in DOMAIN t THEN t.confidence ELSE 10

\* C17: applying filter_by_confidence with the same bounds to its own result
\* gives that result again, where the result of one application is the
\* input triples with min <= confidence <= max, in input order.
C17_ConfidenceIdempotent ==
    gfOp = "confidence" =>
        LET lo == gfArg.min_confidence
            hi == gfArg.max_confidence
            inRange(t) == lo <= ConfidenceOf(t) /\ ConfidenceOf(t) <= hi
        IN  /\ FilterByConfidence(gfOut.val, lo, hi) = gfOut.val
            /\ gfOut.val = SelectSeq(triples, inRange)

\* C17 witness: bounds 0.7 and 1.0 keep the triple without a confidence and
\* drop the triples of confidence 0.6 and 0.3.
C17_Witness ==
    /\ gfOp = "confidence"
    /\ gfArg.min_confidence = 7 /\ gfArg.max_confidence = 10
    /\ triples = << Triple("B", "q", "C", TRUE, 0, 6), BareTriple,
                    Triple("c", "p", "c", FALSE, 1, 3) >>
    /\ gfOut.val = <<BareTriple>>

\* a is b with some positions left out, the rest in the order of b.
RECURSIVE IsSubsequence(_, _)
IsSubsequence(a, b) ==
    IF a = <<>> THEN TRUE
    ELSE IF b = <<>> THEN FALSE
    ELSE IF Head(a) = Head(b) THEN IsSubsequence(Tail(a), Tail(b))
    ELSE IsSubsequence(a, Tail(b))

\* C18: whichever of the six operations is called (entity, relationship,
\* inference-status, confidence, chunk, neighbourhood) and whatever its
\* arguments, the returned list is an order-preserving subsequence of the
\* input list, and the call leaves the input list and its triples as they
\* were.
C18_PureSubsequence ==
    /\ [](gfOp # "none" => IsSubsequence(gfOut.val, triples))
    /\ [][triples' = triples]_vars

\* C18 witness: the chunk filter kept the first and the third of three
\* triples, in that order.
C18_Witness ==
    /\ gfOp = "chunk" /\ gfArg.chunks = <<0>>
    /\ triples = << Triple("a", "p", "b", FALSE, 0, 10), Triple("b", "q", "c", TRUE, 1, 6),
                    Triple("A", "p", "B", FALSE, 0, 10) >>
    /\ gfOut.val = <<triples[1], triples[3]>>


(***************************************************************************)
(* Claims about apply_filtering (checked under SpecAF).                    *)
(***************************************************************************)
\* The triple's predicate equals some listed relationship, ignoring case.
MatchesRelationship(t, relationships) ==
    \E k \in 1..Len(relationships) : Lower(t.predicate) = Lower(relationships[k])

\* The triple passes every enabled stage that comes before the neighbourhood.
PassesStages(t, args) ==
    /\ args.filter_entities # <<>> => MatchesEntity(t, args.filter_entities)
    /\ args.exclude_entities # <<>> => ~MatchesEntity(t, args.exclude_entities)
    /\ args.filter_relationships # <<>> =>
          MatchesRelationship(t, args.filter_relationships)
    /\ args.exclude_relationships # <<>> =>
          ~MatchesRelationship(t, args.exclude_relationships)
    /\ args.only_original => ~t.inferred
    /\ (~args.only_original /\ args.only_inferred) => t.inferred
    /\ args.min_confidence > 0 => args.min_confidence <= ConfidenceOf(t)

\* The triples with their entity names in lower case.
LowerNames(ts) ==
    [i \in 1..Len(ts) |->
        [ts[i] EXCEPT !.subject = Lower(@), !.object = Lower(@)]]

\* C26: apply_filtering applies the enabled stages in the order
\* entity-include, entity-exclude, relationship-include,
\* relationship-exclude, inference-status, confidence, neighbourhood, each on
\* the output of the one before: the neighbourhood is that of the triples
\* that passed the six stages before it, and every entity of the result is
\* within subgraph_hops of the center over those triples alone (names
\* compared ignoring case).
C26_StagesInOrder ==
    gfOp = "apply_filtering" =>
        LET keep(t) == PassesStages(t, gfArg)
            reduced == SelectSeq(triples, keep)
            near == WithinHops(LowerNames(reduced), {Lower(gfArg.subgraph_entity)},
                               gfArg.subgraph_hops)
        IN  /\ gfArg.subgraph_entity = "" => gfOut.val = reduced
            /\ gfArg.subgraph_entity # "" =>
                 /\ GetSubgraphAroundEntity(reduced, gfArg.subgraph_entity,
                                            gfArg.subgraph_hops) = {gfOut.val}
                 /\ \A k \in 1..Len(gfOut.val) :
                      /\ Lower(gfOut.val[k].subject) \in near
                      /\ Lower(gfOut.val[k].object) \in near

\* C26 witness: only the original triples are asked for, within two hops of
\* "C"; "a" and "b" hang on "c" through an inferred triple only, so the
\* result is empty.
C26_Witness ==
    /\ gfOp = "apply_filtering"
    /\ triples = << Triple("b", "q", "c", TRUE, 1, 6), Triple("a", "p", "b", FALSE, 0, 10) >>
    /\ gfArg.only_original /\ gfArg.subgraph_entity = "C" /\ gfArg.subgraph_hops = 2
    /\ gfArg.filter_entities = <<>> /\ gfArg.exclude_entities = <<>>
    /\ gfArg.filter_relationships = <<>> /\ gfArg.exclude_relationships = <<>>
    /\ gfArg.min_confidence = 0
    /\ gfOut.val = <<>>


(***************************************************************************)
(* Claims about analyze_batch_results (checked under SpecPA).              *)
(***************************************************************************)
\* The keys whose record has status success, and their total time and
\* total number of triples.
Successes == {p \in Paths : batchResults[p].status = "success"}
SuccessTime == SumOver(batchResults, "processing_time", Successes)
SuccessTriples == SumOver(batchResults, "triples_extracted", Successes)

NoSuccessfulResults == AnalysisValue([status |-> "no_successful_results"])

\* The distinct outcome is returned exactly when no record is a success, and
\* an analysis that is returned takes its throughput from the successful
\* records only.
AnalysisOfSuccesses ==
    analysis # NotRun =>
        /\ analysis = NoSuccessfulResults <=> Successes = {}
        /\ (analysis.kind = "value" /\ Successes # {}) =>
             /\ analysis.val.files_per_hour
                    = Quotient(Cardinality(Successes) * 3600, SuccessTime)
             /\ analysis.val.triples_per_minute
                    = Quotient(SuccessTriples * 60, SuccessTime)

\* C20: the distinct outcome no_successful_results is returned exactly when
\* no record has status success; in every other case the call returns an
\* analysis whose files_per_hour and triples_per_minute are computed from
\* the successful records only, and it never divides by zero.
C20_ThroughputGuarded ==
    analysis # NotRun =>
        /\ analysis = NoSuccessfulResults <=> Successes = {}
        /\ Successes # {} =>
             /\ analysis.kind = "value"
             /\ analysis.val.files_per_hour
                    = Quotient(Cardinality(Successes) * 3600, SuccessTime)
             /\ analysis.val.triples_per_minute
                    = Quotient(SuccessTriples * 60, SuccessTime)

(***************************************************************************)
(* Claims about the turtle, graphml and gexf exporters (checked under      *)
(* SpecEXP).                                                               *)
(***************************************************************************)
\* A name with its spaces and hyphens replaced by underscores and its
\* parentheses removed, character by character.
RECURSIVE Sanitised(_)
Sanitised(name) ==
    IF name = <<>> THEN <<>>
    ELSE LET c == Head(name)
         IN  (CASE c \in {"(", ")"} -> <<>>
                [] c \in {" ", "-"} -> <<"_">>
                [] OTHER -> <<c>>)
             \o Sanitised(Tail(name))

\* C21: after the namespace header export_to_rdf_turtle writes exactly one
\* 'kg:S kg:P kg:O .' line for each input triple, in input order, so that the
\* number of triple lines equals the reported total_triples; S, P and O are
\* the triple's fields with spaces and hyphens replaced by underscores and
\* parentheses removed.
C21_TurtleLinePerTriple ==
    expOut.kind = "turtle" =>
        LET file == expOut.val.file
            n == Len(TurtleHeader)
        IN  /\ Len(file) >= n
            /\ SubSeq(file, 1, n) = TurtleHeader
            /\ Len(file) - n = expOut.val.total_triples
            /\ Len(file) - n = Len(expTriples)
            /\ \A k \in 1..Len(expTriples) :
                 file[n + k] = TurtleLine(Sanitised(Get(expTriples[k], "subject", <<>>)),
                                          Sanitised(Get(expTriples[k], "predicate", <<>>)),
                                          Sanitised(Get(expTriples[k], "object", <<>>)))

\* The positions of the input triples whose subject, predicate and object
\* are all non-empty.
NamedTriples == {i \in 1..Len(expTriples) : HasAllNames(expTriples[i])}

\* The edge carries the relationship, inferred, chunk and confidence values
\* of the triple, from its subject to its object.
EdgeCarries(e, t) ==
    /\ e.source = t.subject /\ e.target = t.object
    /\ "relationship" \in DOMAIN e /\ e.relationship = t.predicate
    /\ "inferred" \in DOMAIN e /\ e.inferred = Get(t, "inferred", FALSE)
    /\ "chunk" \in DOMAIN e /\ e.chunk = Get(t, "chunk", 0)
    /\ "confidence" \in DOMAIN e
    /\ e.confidence = Get(t, "confidence", DefaultConfidence)

\* C22: in the graphml and in the gexf export every input triple with
\* non-empty subject, predicate and object is represented by its own directed
\* edge from subject to object that carries the triple's relationship,
\* inferred, chunk and confidence values, also when several triples share
\* the same (subject, object) pair.
C22_EdgePerTriple ==
    expOut.kind \in {"graphml", "gexf"} =>
        LET edges == expOut.val.graph.edges
        IN  /\ \A i \in NamedTriples :
                 \E e \in edges : EdgeCarries(e, expTriples[i])
            /\ \A i, j \in NamedTriples :
                 (i # j /\ expTriples[i] # expTriples[j]) =>
                    \E e, f \in edges :
                       /\ e # f
                       /\ EdgeCarries(e, expTriples[i])
                       /\ EdgeCarries(f, expTriples[j])

\* C23: total_nodes is the number of distinct entity names among the triples
\* with non-empty subject, predicate and object, total_edges the number of
\* distinct ordered (subject, object) pairs among them, and so total_edges is
\* at most the number of input triples.
C23_GraphStatistics ==
    expOut.kind \in {"graphml", "gexf"} =>
        /\ expOut.val.total_nodes =
             Cardinality({expTriples[i].subject : i \in NamedTriples}
                         \cup {expTriples[i].object : i \in NamedTriples})
        /\ expOut.val.total_edges =
             Cardinality({<<expTriples[i].subject, expTriples[i].object>> :
                            i \in NamedTriples})
        /\ expOut.val.total_edges <= Len(expTriples)

\* C23 witness: graphml was written for two parallel triples from a to b and
\* one from b to a: two nodes, two edges, three triples.
C23_Witness ==
    /\ expOut.kind = "graphml"
    /\ expTriples = << Triple(<<"a">>, <<"p">>, <<"b">>, FALSE, 0, 10),
                       Triple(<<"a">>, <<"q">>, <<"b">>, TRUE, 1, 6),
                       Triple(<<"b">>, <<"p">>, <<"a">>, FALSE, 0, 10) >>
    /\ expOut.val.total_nodes = 2
    /\ expOut.val.total_edges = 2


(***************************************************************************)
(* Claims about the Neo4j sink (checked under SpecNEO).                    *)
(***************************************************************************)
\* The steps the caller of import_knowledge_graph asked for.
RequestedSteps ==
    (IF clear_first THEN {"clear"} ELSE {})
    \cup {"entities", "relationships"}
    \cup (IF stats = "given" THEN {"metadata"} ELSE {})

\* C24: import_knowledge_graph is all-or-nothing in its reported outcome: it
\* returns True only if every requested step (clearing when clear_first is
\* set, importing entities, importing relationships, storing metadata when
\* stats are given) completed, and returns False, without raising, if one of
\* them fails or no connection was established. "Fails" is an Exception.
C24_AllOrNothing ==
    (neoOp = "import_knowledge_graph" /\ NeoCaught(neoKind)) =>
        /\ neoResult \in {"True", "False"}
        /\ neoResult = "True" <=> RequestedSteps \subseteq Range(neoDone)
        /\ driver = "none" => neoResult = "False"

\* C30: export_triples_to_neo4j leaves no open driver behind: whenever
\* connect() created a driver (also when its test query fails, and when the
\* import fails or raises) the driver is closed when the function is left.
C30_DriverClosed ==
    neoOp = "export_triples_to_neo4j" => driver # "open"

====
